---- MODULE Spec2Model ----
(***************************************************************************)
(* SmartRoom (typeclasses/rooms.py) with its Computer facade               *)
(* (utils/computer.py): the director rewrite scheduler (debounce timer,    *)
(* cooldown retry, in-flight flag, completion callbacks) and the speech    *)
(* dispatcher with its LLM-backed branches.                                *)
(*                                                                         *)
(* Time is counted in ticks of 0.05 s, the smallest duration the code uses *)
(* (the retry slack of _start_desc_rewrite).  A stored timestamp is kept   *)
(* as its age, now - timestamp, saturated at the cooldown it is compared   *)
(* with; a delay() task is kept as the ticks left until it is due.         *)
(*                                                                         *)
(* Spec is the rewrite scheduler driven by rewrite requests; FairSpec adds *)
(* that due tasks run and worker calls return; SpeechSpec is the room with *)
(* its speech dispatcher, the worker calls it launches and the scheduler   *)
(* they feed.                                                              *)
(*                                                                         *)
(* EditSpec, FactsSpec, TargetSpec, CreateSpec and MemorySpec are the same *)
(* room driven by one kind of speech each (TargetSpec in rooms staged with *)
(* several props and an exit, MemorySpec with a memory already filled);    *)
(* DispatchSpec tries every verb of the dispatch table, ChatterSpec mixes  *)
(* speech to the computer with speech about it, and SceneSpec adds props   *)
(* that leave and arrive and a builder who switches auto_desc.             *)
(* ClientSpec is LLMClient.chat_json with its retry loop; ExtractSpec,     *)
(* QuerySpec, StoreSpec and PayloadSpec apply the pure helpers (JSON       *)
(* extraction, object lookup and deletion, edit targeting, remove_fact,    *)
(* ensure_affordance, the request builders with _json_safe) to bounded     *)
(* sets of inputs.                                                         *)
(***************************************************************************)
EXTENDS Integers, Sequences, FiniteSets, TLC

VARIABLES
    auto_desc,              \* room.db.auto_desc
    desc,                   \* room.db.desc
    last_generated_desc,    \* room.db.last_generated_desc
    director_facts,         \* room.db.director_facts
    desc_rewrite_age,       \* time.time() - room.db.last_desc_rewrite_ts, saturated
    desc_rewrite_inflight,  \* room.ndb.desc_rewrite_inflight
    tasks,                  \* the pending delay() calls of _start_desc_rewrite
    director_calls,         \* deferToThread(generate_room_desc, snapshot) calls running
    sent,                   \* the messages the last handler sent
    last_op,                \* the handler (and branch) that ran last
    returned,               \* what the call that ran last returned or handed to its callback
    requests,               \* observer: the rewrite requests made so far
    request_state,          \* observer: is a rewrite request still unserved
    since_start,            \* observer: ticks since the last rewrite was launched
    since_done,             \* observer: ticks since the last rewrite completed
    llm_call_age,           \* time.time() - room.db.last_llm_call_ts, saturated
    llm_calls,              \* deferToThread() calls of create, edit and intent running
    memory,                 \* room.db.memory
    room_facts,             \* room.db.facts
    contents,               \* room.contents, the ids of the objects in the room
    objs,                   \* every object made so far, by id
    heard,                  \* observer: the arguments of the last call made
    speeches,               \* observer: the handle_speech calls made so far
    since_llm,              \* observer: ticks since the last create/edit/intent launch
    worker_writes,          \* observer: attribute writes made in the worker pool
    client                  \* the LLMClient call running: its locals and its position

speechVars == <<llm_call_age, llm_calls, memory, room_facts, contents, heard, speeches,
                since_llm, worker_writes, client>>

vars == <<auto_desc, desc, last_generated_desc, director_facts, desc_rewrite_age,
          desc_rewrite_inflight, tasks, director_calls,
          sent, last_op, returned, requests, request_state, since_start, since_done,
          speechVars, objs>>

-----------------------------------------------------------------------------
(* Program constants, in ticks of 0.05 s.                                   *)

DESC_UPDATE_DEBOUNCE_S == 20
DESC_UPDATE_COOLDOWN_S == 60
RETRY_SLACK == 1
LLM_COOLDOWN_SECONDS == 40
MEMORY_MAX == 50

(* Bounds of the model.                                                     *)

MaxRequests == 3
MaxSpeech == 2
MaxFactSpeech == 3
MaxProviders == 2
MaxJsonLen == 5
MaxStored == 3
TickQuantum == 10

Never == -1

-----------------------------------------------------------------------------
(* Text: a sequence of tokens, " " being whitespace.                        *)

RECURSIVE LStrip(_)
LStrip(s) == IF s # <<>> /\ Head(s) = " " THEN LStrip(Tail(s)) ELSE s

RECURSIVE RStrip(_)
RStrip(s) == IF s # <<>> /\ s[Len(s)] = " " THEN RStrip(SubSeq(s, 1, Len(s) - 1)) ELSE s

Strip(s) == RStrip(LStrip(s))

RECURSIVE LStripOf(_, _)
LStripOf(s, chars) ==
    IF s # <<>> /\ Head(s) \in chars THEN LStripOf(Tail(s), chars) ELSE s

RECURSIVE RStripOf(_, _)
RStripOf(s, chars) ==
    IF s # <<>> /\ s[Len(s)] \in chars
    THEN RStripOf(SubSeq(s, 1, Len(s) - 1), chars) ELSE s

(* A token is whitespace, a punctuation mark, or a word; two words that     *)
(* follow each other have one blank between them.                           *)
Punctuation == {",", ":", ";", "'", "!"}
IsWord(tok) == tok \notin Punctuation \cup {" "}

(* str.lower() and str.title() of a word.                                   *)
Lower(tok) ==
    CASE tok = "Computer" -> "computer"
      [] tok = "Lamp" -> "lamp"
      [] tok = "Cat" -> "cat"
      [] tok = "Red" -> "red"
      [] tok = "PIN" -> "pin"
      [] tok = "Blue" -> "blue"
      [] tok = "Brass" -> "brass"
      [] tok = "LAMP" -> "lamp"
      [] tok = "Door" -> "door"
      [] tok = "Ann" -> "ann"
      [] tok = "Change" -> "change"
      [] tok = "List" -> "list"
      [] tok = "FACTS" -> "facts"
      [] tok = "Unpin" -> "unpin"
      [] tok = "Delete" -> "delete"
      [] tok = "REMOVE" -> "remove"
      [] tok = "Update" -> "update"
      [] tok = "Recolor" -> "recolor"
      [] tok = "Make" -> "make"
      [] tok = "SUMMON" -> "summon"
      [] OTHER -> tok

Title(tok) ==
    CASE tok = "lamp" -> "Lamp"
      [] tok = "cat" -> "Cat"
      [] tok = "red" -> "Red"
      [] tok = "create" -> "Create"
      [] OTHER -> tok

LowerText(s) == [i \in 1..Len(s) |-> Lower(s[i])]
TitleText(s) == [i \in 1..Len(s) |-> Title(s[i])]

(* The words of one, two and three characters; the others are longer.      *)
WordLen(tok) ==
    CASE tok \in {"a"} -> 1
      [] tok \in {"an", "to", "it", "of", "in", "on"} -> 2
      [] tok \in {"the", "cat", "red", "and", "ann"} -> 3
      [] OTHER -> 4

(* '#<digits>'; the number of the object it names.                          *)
DbrefToken(id) == CASE id = 1 -> "#1" [] id = 2 -> "#2" [] id = 3 -> "#3"
                    [] id = 4 -> "#4" [] id = 5 -> "#5" [] OTHER -> "#9"
IsDbref(tok) == tok \in {"#1", "#2", "#3", "#4", "#5", "#9"}

(* [a-zA-Z0-9_]+ *)
IsIdent(tok) == IsWord(tok) /\ ~IsDbref(tok)

(* a in b, for texts.                                                       *)
Contains(b, a) ==
    \E i \in 0..(Len(b) - Len(a)) : SubSeq(b, i + 1, i + Len(a)) = a

(* re.sub(r"^(the|a|an)\s+", "", s)                                         *)
StripArticle(s) ==
    IF Len(s) >= 2 /\ Lower(s[1]) \in {"the", "a", "an"} /\ (IsWord(s[2]) \/ s[2] = " ")
    THEN LStrip(Tail(s)) ELSE s

(* utils/room_text.py                                                       *)
NormalizeSayMessage(message) ==
    LET msg == Strip(message)
    IN IF msg = <<>> THEN <<>>
       ELSE Strip(LStripOf(RStripOf(LStripOf(msg, {" ", "'"}), {" ", "'"}),
                           {" ", ",", ":", ";"}))

(* Mutant: any text that begins with the word is taken as addressed.        *)
IsComputerAddressed_AnyFollower(normalized) ==
    /\ Len(normalized) >= 2
    /\ Lower(normalized[1]) = "computer"

IsComputerAddressed(normalized) ==
    /\ Len(normalized) >= 2
    /\ Lower(normalized[1]) = "computer"
    /\ (normalized[2] \in {" ", ":", ","} \/ IsWord(normalized[2]))

ExtractComputerInstruction(normalized) ==
    IF ~IsComputerAddressed(normalized) THEN <<>>
    ELSE Strip(LStripOf(Tail(normalized), {" ", ":", ","}))

DEFAULT_DESC == <<"unfinished">>

-----------------------------------------------------------------------------
(* Objects.                                                                 *)

(* A value that is a dict carries its items; None and any other value do    *)
(* not.                                                                     *)
EmptyMap == [k \in {} |-> TRUE]
Dict(kv) == [dict |-> TRUE, kv |-> kv]
NoneValue == [dict |-> FALSE, kv |-> EmptyMap]

Merged(a, base) ==
    [k \in DOMAIN a \cup DOMAIN base |-> IF k \in DOMAIN a THEN a[k] ELSE base[k]]

(* utils/affordance.py                                                      *)
DefaultContainer ==
    [is_container |-> FALSE, capacity_weight |-> 0, openable |-> FALSE, is_open |-> TRUE]

DefaultAffordance ==
    [unit |-> "lb", weight |-> 1, immovable |-> FALSE,
     container |-> Dict(DefaultContainer),
     manipulations |-> <<"pick up", "examine">>]

(* Mutant: the defaults are written over what is stored.                    *)
EnsureAffordance_DefaultsWin(affordance) ==
    LET a == Merged(DefaultAffordance, IF affordance.dict THEN affordance.kv ELSE EmptyMap)
        container == IF ~a.container.dict THEN Dict(DefaultContainer)
                     ELSE Dict(Merged(a.container.kv, DefaultContainer))
    IN Dict([a EXCEPT !.container = container])

EnsureAffordance(affordance) ==
    LET a == Merged(IF affordance.dict THEN affordance.kv ELSE EmptyMap, DefaultAffordance)
        container == IF ~a.container.dict THEN Dict(DefaultContainer)
                     ELSE Dict(Merged(a.container.kv, DefaultContainer))
    IN Dict([a EXCEPT !.container = container])

(* The affordance _manifest_prop gives a new prop.                          *)
ManifestAffordance == Dict([unit |-> "lb", weight |-> 1, immovable |-> FALSE])

Object(kind, key, shortdesc, odesc, notable, affordance) ==
    [kind |-> kind, key |-> key, shortdesc |-> shortdesc, desc |-> odesc,
     notable |-> notable, facts |-> <<>>, affordance |-> affordance]

Speaker == 1

(* The room to start with: the speaking character and a prop made by an     *)
(* earlier create.                                                          *)
InitialObjects ==
    << Object("character", <<"Ann">>, <<>>, <<>>, FALSE, NoneValue),
       Object("prop", <<"Lamp">>, <<"a", "brass", "lamp">>, <<"shiny">>, TRUE,
              ManifestAffordance) >>

IsProp(o) == o.kind \notin {"exit", "character"}

Dbref(id) == DbrefToken(id)

(* utils/room_object_query.py: iter_notable_props                           *)
RECURSIVE NotableProps(_, _)
NotableProps(os, inroom) ==
    IF inroom = <<>> THEN <<>>
    ELSE IF IsProp(os[Head(inroom)]) /\ os[Head(inroom)].notable
         THEN <<Head(inroom)>> \o NotableProps(os, Tail(inroom))
         ELSE NotableProps(os, Tail(inroom))

(* Computer.notable_objects_packet: every notable prop of the room gets its *)
(* affordance ensured, and written back.                                    *)
EnsuredNotables(os, inroom) ==
    [id \in DOMAIN os |->
        IF \E i \in 1..Len(inroom) : inroom[i] = id /\ IsProp(os[id]) /\ os[id].notable
        THEN [os[id] EXCEPT !.affordance = EnsureAffordance(@)]
        ELSE os[id]]

AffordanceWrites(ids) == {[obj |-> id, attr |-> "affordance"] : id \in ids}

Range(seq) == {seq[i] : i \in 1..Len(seq)}

NotablePacket(os, inroom) ==
    LET ids == NotableProps(os, inroom)
    IN [i \in 1..Len(ids) |->
          [dbref |-> Dbref(ids[i]), key |-> os[ids[i]].key,
           shortdesc |-> IF os[ids[i]].shortdesc # <<>> THEN os[ids[i]].shortdesc
                         ELSE os[ids[i]].key,
           desc |-> os[ids[i]].desc]]

-----------------------------------------------------------------------------
(* The director pipeline run in the worker pool.                            *)

(* A JSON value that is a list carries its items; any other value is     *)
(* NotAList.                                                                *)
List(items) == [is_list |-> TRUE, items |-> items]
NotAList == [is_list |-> FALSE, items |-> <<>>]

(* Exceptions a worker call ends with.                                      *)
LLMFailure == [error |-> "RuntimeError: All LLM providers failed"]
ValueError == [error |-> "ValueError"]
Raised(out) == "error" \in DOMAIN out

(* What the chat completion can answer to the director prompt: any mapping, *)
(* or no usable answer from any provider (chat_json raises).                *)
DirectorDescs == {<<" ">>, <<"cosy">>, <<" ", "cosy">>, <<"bleak">>}
DirectorFactReplies ==
    {NotAList, List(<< <<"warm">> >>), List(<< <<" ">>, <<"cold", " ">> >>)}
DirectorReplies ==
    {LLMFailure} \cup [desc : DirectorDescs, facts : DirectorFactReplies]

RECURSIVE StrippedNonEmpty(_)
StrippedNonEmpty(fs) ==
    IF fs = <<>> THEN <<>>
    ELSE IF Strip(Head(fs)) # <<>>
         THEN <<Strip(Head(fs))>> \o StrippedNonEmpty(Tail(fs))
         ELSE StrippedNonEmpty(Tail(fs))

(* generate_from_snapshot: the validated {desc, facts}, or the exception.   *)
GenerateFromSnapshot(reply) ==
    IF Raised(reply) THEN reply
    ELSE LET d == Strip(reply.desc)
             facts == IF reply.facts.is_list THEN reply.facts.items ELSE <<>>
         IN IF d = <<>> THEN ValueError
            ELSE [desc |-> d, facts |-> List(StrippedNonEmpty(facts))]

(* Computer.director_snapshot, taken on the main context at launch.         *)
DirectorSnapshot ==
    [previous_desc |-> desc,
     previous_generated_desc |-> last_generated_desc,
     facts |-> StrippedNonEmpty(director_facts),
     objects |-> NotablePacket(objs, contents),
     memory |-> memory]

-----------------------------------------------------------------------------
(* Messages.                                                                *)

MsgShimmer == [to |-> "room", text |-> "The set shimmers, reconsidering itself"]
MsgSettles == [to |-> "room", text |-> "Reality settles into a new arrangement."]

-----------------------------------------------------------------------------
(* The rewrite scheduler.                                                   *)

(* A pending delay(): the ticks left, who made it, whether                  *)
(* ndb.desc_rewrite_task holds it, and (observer) whether                   *)
(* last_desc_rewrite_ts is still the stamp its delay was computed from.     *)
Task(left, by, held) == [left |-> left, by |-> by, held |-> held, fresh |-> TRUE]

-----------------------------------------------------------------------------
(* utils/llm_client.py.  The text of a completion is a sequence of tokens:  *)
(* the brackets, "k:" (a member name with its colon), "s" (a string         *)
(* literal), "x" (text that is not JSON) and " " (whitespace).              *)

max_attempts == 4

JsonTokens == {"{", "}", "[", "]", "k:", "s", "x", " "}

(* A completion's content: a string, or null.                               *)
Str(t) == [none |-> FALSE, str |-> t]
NoText == [none |-> TRUE, str |-> <<>>]

(* json.loads(t): one value, read from the left, with nothing after it.     *)
(* Whitespace between tokens does not count.  The value read is kept as its *)
(* tokens without the whitespace.                                           *)
RECURSIVE ParseValue(_)
ParseValue(ts) ==
    LET Fail == [ok |-> FALSE, kind |-> "none", value |-> <<>>, rest |-> <<>>]
        Ok(kind, value, rest) == [ok |-> TRUE, kind |-> kind, value |-> value, rest |-> rest]
        After(n) == SubSeq(ts, n + 1, Len(ts))
        inner == ParseValue(After(IF ts[1] = "{" THEN 2 ELSE 1))
        closer == IF ts[1] = "{" THEN "}" ELSE "]"
        opener == IF ts[1] = "{" THEN <<"{", "k:">> ELSE <<"[">>
    IN IF ts = <<>> THEN Fail
       ELSE IF ts[1] = "s" THEN Ok("scalar", <<"s">>, After(1))
       ELSE IF ts[1] \notin {"{", "["} \/ Len(ts) < 2 THEN Fail
       ELSE IF ts[2] = closer
       THEN Ok(IF ts[1] = "{" THEN "dict" ELSE "list", <<ts[1], closer>>, After(2))
       ELSE IF ts[1] = "{" /\ ts[2] # "k:" THEN Fail
       ELSE IF inner.ok /\ inner.rest # <<>> /\ inner.rest[1] = closer
       THEN Ok(IF ts[1] = "{" THEN "dict" ELSE "list",
               opener \o inner.value \o <<closer>>, Tail(inner.rest))
       ELSE Fail

Loads(t) ==
    LET NotBlank(tok) == tok # " "
        v == ParseValue(SelectSeq(t, NotBlank))
    IN IF v.ok /\ v.rest = <<>> THEN v ELSE [v EXCEPT !.ok = FALSE]

(* Mutant: a strict parse that yields a non-mapping falls back to the span. *)
ExtractJsonFromText_FallsBack(text) ==
    LET t == Strip(text.str)
        strict == Loads(t)
        opens == {i \in 1..Len(t) : t[i] = "{"}
        first == CHOOSE i \in opens : \A j \in opens : i <= j
        closes == {i \in (first + 1)..Len(t) : t[i] = "}"}
        last == CHOOSE i \in closes : \A j \in closes : j <= i
        candidate == Loads(SubSeq(t, first, last))
    IN IF text.none THEN NoneValue
       ELSE IF strict.ok /\ strict.kind = "dict" THEN Dict(strict.value)
       ELSE IF opens = {} \/ closes = {} THEN NoneValue
       ELSE IF candidate.ok /\ candidate.kind = "dict" THEN Dict(candidate.value)
       ELSE NoneValue

(* _extract_json_from_text(text, label)                                     *)
ExtractJsonFromText(text) ==
    LET t == Strip(text.str)
        strict == Loads(t)
        opens == {i \in 1..Len(t) : t[i] = "{"}
        first == CHOOSE i \in opens : \A j \in opens : i <= j
        closes == {i \in (first + 1)..Len(t) : t[i] = "}"}
        last == CHOOSE i \in closes : \A j \in closes : j <= i
        candidate == Loads(SubSeq(t, first, last))
    IN IF text.none THEN NoneValue
       ELSE IF strict.ok
       THEN IF strict.kind = "dict" THEN Dict(strict.value) ELSE NoneValue
       ELSE IF opens = {} \/ closes = {} THEN NoneValue
       ELSE IF candidate.ok /\ candidate.kind = "dict" THEN Dict(candidate.value)
       ELSE NoneValue

(* No chat_json call is running.                                            *)
NoCall ==
    [pc |-> "idle", providers |-> <<>>, provider |-> 0, attempt |-> 0,
     last_err |-> "None", last_exc |-> "None", posts |-> <<>>, failed |-> <<>>,
     response |-> [raised |-> FALSE, status_code |-> 0, json_ok |-> FALSE,
                   content |-> NoText],
     text |-> NoText, out |-> NoneValue]

NoData == [none |-> TRUE]

(* The state after construction of a room that holds these objects and has  *)
(* heard this much.                                                         *)
InitWith(os, inroom, mem) ==
    /\ auto_desc = TRUE
    /\ desc = DEFAULT_DESC
    /\ last_generated_desc = DEFAULT_DESC
    /\ director_facts = <<>>
    /\ desc_rewrite_age = DESC_UPDATE_COOLDOWN_S
    /\ desc_rewrite_inflight = FALSE
    /\ tasks = <<>>
    /\ director_calls = <<>>
    /\ sent = {}
    /\ last_op = "init"
    /\ returned = NoData
    /\ requests = 0
    /\ request_state = "none"
    /\ since_start = Never
    /\ since_done = Never
    /\ llm_call_age = LLM_COOLDOWN_SECONDS
    /\ llm_calls = <<>>
    /\ memory = mem
    /\ room_facts = <<>>
    /\ contents = inroom
    /\ objs = os
    /\ heard = NoData
    /\ speeches = 0
    /\ since_llm = Never
    /\ worker_writes = {}
    /\ client = NoCall

Init == InitWith(InitialObjects, <<1, 2>>, <<>>)

NotHeld(t) == ~t.held

(* _schedule_desc_rewrite: cancel the task ndb.desc_rewrite_task holds (a   *)
(* task that already ran is not pending, and cancelling it does nothing),   *)
(* then hold a new one.                                                     *)
ScheduleDescRewrite(pending) ==
    /\ tasks' = Append(SelectSeq(pending, NotHeld),
                       Task(DESC_UPDATE_DEBOUNCE_S, "schedule", TRUE))
    /\ request_state' = "waiting"
    /\ requests' = requests + 1

RemoveAt(s, i) == SubSeq(s, 1, i - 1) \o SubSeq(s, i + 1, Len(s))

MarkStale(pending) == [i \in 1..Len(pending) |-> [pending[i] EXCEPT !.fresh = FALSE]]

(* _start_desc_rewrite, rooms.py 154-155: a rewrite is in flight.           *)
StartInFlight(pending) ==
    /\ tasks' = pending
    /\ sent' = {}
    /\ last_op' = "start_inflight"
    /\ request_state' = IF request_state = "waiting" THEN "dropped" ELSE request_state
    /\ UNCHANGED <<auto_desc, desc, last_generated_desc, director_facts,
                   desc_rewrite_age, desc_rewrite_inflight, director_calls,
                   requests, since_start, since_done, speechVars, objs>>

(* Mutant: the retry waits the debounce delay, not the rest of the cooldown. *)
StartInCooldown_DebounceDelay(pending) ==
    /\ tasks' = Append(pending, Task(DESC_UPDATE_DEBOUNCE_S, "start", FALSE))
    /\ desc_rewrite_inflight' = FALSE
    /\ sent' = {}
    /\ last_op' = "start_cooldown"
    /\ UNCHANGED <<auto_desc, desc, last_generated_desc, director_facts,
                   desc_rewrite_age, director_calls, requests, request_state,
                   since_start, since_done, speechVars, objs>>

(* Mutant: inside the cooldown the request is dropped.                      *)
StartInCooldown_Drops(pending) ==
    /\ tasks' = pending
    /\ desc_rewrite_inflight' = FALSE
    /\ sent' = {}
    /\ last_op' = "start_cooldown"
    /\ UNCHANGED <<auto_desc, desc, last_generated_desc, director_facts,
                   desc_rewrite_age, director_calls, requests, request_state,
                   since_start, since_done, speechVars, objs>>

(* rooms.py 160-165: inside the cooldown, retry after what is left of it.   *)
StartInCooldown(pending) ==
    /\ tasks' = Append(pending,
            Task((DESC_UPDATE_COOLDOWN_S - desc_rewrite_age) + RETRY_SLACK, "start", FALSE))
    /\ desc_rewrite_inflight' = FALSE
    /\ sent' = {}
    /\ last_op' = "start_cooldown"
    /\ UNCHANGED <<auto_desc, desc, last_generated_desc, director_facts,
                   desc_rewrite_age, director_calls, requests, request_state,
                   since_start, since_done, speechVars, objs>>

(* Mutant: the launch does not stamp last_desc_rewrite_ts.                   *)
StartLaunch_NoStamp(pending) ==
    /\ desc_rewrite_inflight' = TRUE
    /\ sent' = {MsgShimmer}
    /\ director_calls' = Append(director_calls, DirectorSnapshot)
    /\ tasks' = MarkStale(pending)
    /\ last_op' = "start_launch"
    /\ request_state' = "none"
    /\ since_start' = 0
    /\ objs' = EnsuredNotables(objs, contents)
    /\ UNCHANGED <<auto_desc, desc, last_generated_desc, director_facts,
                   desc_rewrite_age, requests, since_done, speechVars>>

(* rooms.py 156, 166-172, 201-202: stamp, snapshot and launch.              *)
StartLaunch(pending) ==
    /\ desc_rewrite_inflight' = TRUE
    /\ desc_rewrite_age' = 0
    /\ sent' = {MsgShimmer}
    /\ director_calls' = Append(director_calls, DirectorSnapshot)
    /\ tasks' = MarkStale(pending)
    /\ last_op' = "start_launch"
    /\ request_state' = "none"
    /\ since_start' = 0
    /\ objs' = EnsuredNotables(objs, contents)
    /\ UNCHANGED <<auto_desc, desc, last_generated_desc, director_facts, requests,
                   since_done, speechVars>>

(* Mutant: no test of the in-flight flag.                                   *)
StartDescRewrite_NoInFlightTest(pending) ==
    IF desc_rewrite_age < DESC_UPDATE_COOLDOWN_S THEN StartInCooldown(pending)
    ELSE StartLaunch(pending)

(* _start_desc_rewrite, called by a due task; pending are the tasks left    *)
(* once the due task has been taken off.                                    *)
StartDescRewrite(pending) ==
    IF desc_rewrite_inflight THEN StartInFlight(pending)
    ELSE IF desc_rewrite_age < DESC_UPDATE_COOLDOWN_S THEN StartInCooldown(pending)
    ELSE StartLaunch(pending)

(* A caller of _schedule_desc_rewrite, taken alone.                         *)
RequestRewrite ==
    /\ requests < MaxRequests
    /\ ScheduleDescRewrite(tasks)
    /\ sent' = {}
    /\ last_op' = "schedule"
    /\ returned' = NoData
    /\ UNCHANGED <<auto_desc, desc, last_generated_desc, director_facts,
                   desc_rewrite_age, desc_rewrite_inflight,
                   director_calls, since_start, since_done, speechVars, objs>>

(* A delay() comes due and calls _start_desc_rewrite.                       *)
TaskFires ==
    \E i \in 1..Len(tasks) :
        /\ tasks[i].left = 0
        /\ StartDescRewrite(RemoveAt(tasks, i))
        /\ returned' = NoData

(* Mutant: the failure callback leaves the in-flight flag set.              *)
OnFail_KeepsFlag ==
    /\ sent' = {}
    /\ last_op' = "rewrite_fail"
    /\ UNCHANGED <<desc, last_generated_desc, director_facts, desc_rewrite_inflight>>

(* _on_fail of the rewrite.                                                 *)
OnFail ==
    /\ desc_rewrite_inflight' = FALSE
    /\ sent' = {}
    /\ last_op' = "rewrite_fail"
    /\ UNCHANGED <<desc, last_generated_desc, director_facts>>

(* Mutant: the result is applied whatever db.auto_desc says.                *)
OnOk_IgnoresAutoDesc(data) ==
    LET new_desc == Strip(data.desc)
        facts == data.facts
    IN IF new_desc # <<>> /\ new_desc # desc
       THEN /\ desc' = new_desc
            /\ last_generated_desc' = new_desc
            /\ director_facts' = IF facts.is_list THEN facts.items ELSE director_facts
            /\ sent' = {MsgSettles}
            /\ desc_rewrite_inflight' = FALSE
            /\ last_op' = "rewrite_ok"
       ELSE /\ desc_rewrite_inflight' = FALSE
            /\ sent' = {}
            /\ last_op' = "rewrite_ok"
            /\ UNCHANGED <<desc, last_generated_desc, director_facts>>

(* Mutant: the facts are replaced even when the description is the same.    *)
OnOk_FactsAlways(data) ==
    IF ~auto_desc
    THEN /\ desc_rewrite_inflight' = FALSE
         /\ sent' = {}
         /\ last_op' = "rewrite_ok"
         /\ UNCHANGED <<desc, last_generated_desc, director_facts>>
    ELSE LET new_desc == Strip(data.desc)
             facts == data.facts
         IN /\ director_facts' = IF facts.is_list THEN facts.items ELSE director_facts
            /\ desc_rewrite_inflight' = FALSE
            /\ last_op' = "rewrite_ok"
            /\ IF new_desc # <<>> /\ new_desc # desc
               THEN /\ desc' = new_desc
                    /\ last_generated_desc' = new_desc
                    /\ sent' = {MsgSettles}
               ELSE /\ sent' = {}
                    /\ UNCHANGED <<desc, last_generated_desc>>

(* _on_ok of the rewrite, data being what generate_room_desc returned.      *)
OnOk(data) ==
    IF ~auto_desc
    THEN /\ desc_rewrite_inflight' = FALSE
         /\ sent' = {}
         /\ last_op' = "rewrite_ok"
         /\ UNCHANGED <<desc, last_generated_desc, director_facts>>
    ELSE LET new_desc == Strip(data.desc)
             facts == data.facts
         IN IF new_desc # <<>> /\ new_desc # desc
            THEN /\ desc' = new_desc
                 /\ last_generated_desc' = new_desc
                 /\ director_facts' = IF facts.is_list THEN facts.items ELSE director_facts
                 /\ sent' = {MsgSettles}
                 /\ desc_rewrite_inflight' = FALSE
                 /\ last_op' = "rewrite_ok"
            ELSE /\ desc_rewrite_inflight' = FALSE
                 /\ sent' = {}
                 /\ last_op' = "rewrite_ok"
                 /\ UNCHANGED <<desc, last_generated_desc, director_facts>>

(* The worker call of the running rewrite returns and its callback runs on  *)
(* the main context.                                                        *)
RewriteReturns ==
    /\ director_calls # <<>>
    /\ director_calls' = Tail(director_calls)
    /\ since_done' = 0
    /\ \E reply \in DirectorReplies :
          LET out == GenerateFromSnapshot(reply)
          IN /\ returned' = out
             /\ IF Raised(out) THEN OnFail ELSE OnOk(out)
    /\ UNCHANGED <<auto_desc, desc_rewrite_age, tasks, requests, request_state,
                   since_start, speechVars, objs>>

(* A builder sets db.auto_desc.                                             *)
SetAutoDesc ==
    /\ auto_desc' = ~auto_desc
    /\ sent' = {}
    /\ last_op' = "set_auto_desc"
    /\ returned' = NoData
    /\ UNCHANGED <<desc, last_generated_desc, director_facts, desc_rewrite_age,
                   desc_rewrite_inflight, tasks, director_calls, requests,
                   request_state, since_start, since_done, speechVars, objs>>

-----------------------------------------------------------------------------
(* Finding objects: utils/room_object_query.py, utils/room_targeting.py.    *)

None == 0

MinOf(S) == CHOOSE x \in S : \A y \in S : x <= y

(* The object of the room with this dbref, of any kind.                     *)
WithDbref(inroom, tok) ==
    LET at == {i \in 1..Len(inroom) : Dbref(inroom[i]) = tok}
    IN IF at = {} THEN None ELSE inroom[MinOf(at)]

NameIs(o, needle) ==
    LowerText(o.key) = needle \/ LowerText(o.shortdesc) = needle

NameHas(o, needle) ==
    \/ Contains(LowerText(o.key), needle)
    \/ (o.shortdesc # <<>> /\ Contains(LowerText(o.shortdesc), needle))

(* Mutant: an exact match counts only when it is the only one.              *)
FindObjectInRoom_UniqueExact(os, inroom, target_text, notable_only) ==
    LET t == Strip(target_text)
        needle == LowerText(t)
        eligible == {i \in 1..Len(inroom) :
                        /\ IsProp(os[inroom[i]])
                        /\ (notable_only => os[inroom[i]].notable)}
        exact == {i \in eligible : NameIs(os[inroom[i]], needle)}
        candidates == {i \in eligible : NameHas(os[inroom[i]], needle)}
    IN IF t = <<>> THEN None
       ELSE IF Len(t) = 1 /\ IsDbref(t[1]) THEN WithDbref(inroom, t[1])
       ELSE IF Cardinality(exact) = 1 THEN inroom[MinOf(exact)]
       ELSE IF Cardinality(candidates) = 1 THEN inroom[MinOf(candidates)]
       ELSE None

FindObjectInRoom(os, inroom, target_text, notable_only) ==
    LET t == Strip(target_text)
        needle == LowerText(t)
        eligible == {i \in 1..Len(inroom) :
                        /\ IsProp(os[inroom[i]])
                        /\ (notable_only => os[inroom[i]].notable)}
        exact == {i \in eligible : NameIs(os[inroom[i]], needle)}
        candidates == {i \in eligible : NameHas(os[inroom[i]], needle)}
    IN IF t = <<>> THEN None
       ELSE IF Len(t) = 1 /\ IsDbref(t[1]) THEN WithDbref(inroom, t[1])
       ELSE IF exact # {} THEN inroom[MinOf(exact)]
       ELSE IF Cardinality(candidates) = 1 THEN inroom[MinOf(candidates)]
       ELSE None

(* Mutant: of several substring matches the first is deleted.               *)
DeleteObjectBySelector_FirstCandidate(os, inroom, selector) ==
    LET t == Strip(selector)
        needle == LowerText(t)
        props == {i \in 1..Len(inroom) : IsProp(os[inroom[i]])}
        exact == {i \in props : NameIs(os[inroom[i]], needle)}
        candidates == {i \in props : NameHas(os[inroom[i]], needle)}
    IN IF t = <<>> THEN None
       ELSE IF Len(t) = 1 /\ IsDbref(t[1]) THEN WithDbref(inroom, t[1])
       ELSE IF exact # {} THEN inroom[MinOf(exact)]
       ELSE IF candidates # {} THEN inroom[MinOf(candidates)]
       ELSE None

(* Mutant: the name tiers look at every object of the room.                 *)
DeleteObjectBySelector_AnyKind(os, inroom, selector) ==
    LET t == Strip(selector)
        needle == LowerText(t)
        props == 1..Len(inroom)
        exact == {i \in props : NameIs(os[inroom[i]], needle)}
        candidates == {i \in props : NameHas(os[inroom[i]], needle)}
    IN IF t = <<>> THEN None
       ELSE IF Len(t) = 1 /\ IsDbref(t[1]) THEN WithDbref(inroom, t[1])
       ELSE IF exact # {} THEN inroom[MinOf(exact)]
       ELSE IF Cardinality(candidates) = 1 THEN inroom[MinOf(candidates)]
       ELSE None

(* Mutant: the name tiers look at the notable props only.                   *)
DeleteObjectBySelector_NotableOnly(os, inroom, selector) ==
    LET t == Strip(selector)
        needle == LowerText(t)
        props == {i \in 1..Len(inroom) : IsProp(os[inroom[i]]) /\ os[inroom[i]].notable}
        exact == {i \in props : NameIs(os[inroom[i]], needle)}
        candidates == {i \in props : NameHas(os[inroom[i]], needle)}
    IN IF t = <<>> THEN None
       ELSE IF Len(t) = 1 /\ IsDbref(t[1]) THEN WithDbref(inroom, t[1])
       ELSE IF exact # {} THEN inroom[MinOf(exact)]
       ELSE IF Cardinality(candidates) = 1 THEN inroom[MinOf(candidates)]
       ELSE None

(* delete_object_by_selector: the object it deletes, or None.               *)
DeleteObjectBySelector(os, inroom, selector) ==
    LET t == Strip(selector)
        needle == LowerText(t)
        props == {i \in 1..Len(inroom) : IsProp(os[inroom[i]])}
        exact == {i \in props : NameIs(os[inroom[i]], needle)}
        candidates == {i \in props : NameHas(os[inroom[i]], needle)}
    IN IF t = <<>> THEN None
       ELSE IF Len(t) = 1 /\ IsDbref(t[1]) THEN WithDbref(inroom, t[1])
       ELSE IF exact # {} THEN inroom[MinOf(exact)]
       ELSE IF Cardinality(candidates) = 1 THEN inroom[MinOf(candidates)]
       ELSE None

Without(inroom, id) ==
    LET Other(x) == x # id IN SelectSeq(inroom, Other)

(* _words: the words of three characters and more, in lower case.           *)
Words(text, minlen) ==
    {Lower(text[i]) : i \in {j \in 1..Len(text) :
                                IsIdent(text[j]) /\ WordLen(Lower(text[j])) >= minlen}}

DbrefsIn(text) == {i \in 1..Len(text) : IsDbref(text[i])}

Hits(o, low) ==
    Cardinality({w \in Words(o.key, 3) \cup Words(StripArticle(Strip(o.shortdesc)), 3) :
                    w \in Range(low)})

(* Mutant: a tie for the best score goes to the first of the best.          *)
ResolveEditTarget_FirstBest(os, inroom, instruction) ==
    LET text == Strip(instruction)
        low == LowerText(text)
        notables == NotableProps(os, inroom)
        Scores(id) == Hits(os[id], low) > 0
        scored == SelectSeq(notables, Scores)
        best_score == CHOOSE h \in {Hits(os[id], low) : id \in Range(scored)} :
                          \A id \in Range(scored) : Hits(os[id], low) <= h
        IsBest(id) == Hits(os[id], low) = best_score
        best == SelectSeq(scored, IsBest)
    IN IF text = <<>> THEN [target |-> None, ambiguous |-> <<>>]
       ELSE IF DbrefsIn(text) # {}
            THEN [target |-> WithDbref(inroom, text[MinOf(DbrefsIn(text))]),
                  ambiguous |-> <<>>]
       ELSE IF scored = <<>> THEN [target |-> None, ambiguous |-> <<>>]
       ELSE [target |-> best[1], ambiguous |-> <<>>]

(* resolve_edit_target: the target (or None) and the ambiguity list.        *)
ResolveEditTarget(os, inroom, instruction) ==
    LET text == Strip(instruction)
        low == LowerText(text)
        notables == NotableProps(os, inroom)
        Scores(id) == Hits(os[id], low) > 0
        scored == SelectSeq(notables, Scores)
        best_score == CHOOSE h \in {Hits(os[id], low) : id \in Range(scored)} :
                          \A id \in Range(scored) : Hits(os[id], low) <= h
        IsBest(id) == Hits(os[id], low) = best_score
        best == SelectSeq(scored, IsBest)
    IN IF text = <<>> THEN [target |-> None, ambiguous |-> <<>>]
       ELSE IF DbrefsIn(text) # {}
            THEN [target |-> WithDbref(inroom, text[MinOf(DbrefsIn(text))]),
                  ambiguous |-> <<>>]
       ELSE IF scored = <<>> THEN [target |-> None, ambiguous |-> <<>>]
       ELSE IF Len(best) = 1 THEN [target |-> best[1], ambiguous |-> <<>>]
       ELSE [target |-> None, ambiguous |-> best]

StopWords == {"a", "an", "the", "of", "to", "and", "in", "on", "with", "from",
              "into", "more", "make", "change"}

(* Mutant: a token counts from five characters on.                          *)
InstructionMentionsTarget_FromFive(instruction, o) ==
    LET text == LowerText(instruction)
        tokens == (Words(o.key, 5) \cup Words(StripArticle(LowerText(o.shortdesc)), 5))
                      \ StopWords
    IN \/ DbrefsIn(text) # {}
       \/ \E t \in tokens : t \in Range(text)

InstructionMentionsTarget(instruction, o) ==
    LET text == LowerText(instruction)
        tokens == (Words(o.key, 4) \cup Words(StripArticle(LowerText(o.shortdesc)), 4))
                      \ StopWords
    IN \/ DbrefsIn(text) # {}
       \/ \E t \in tokens : t \in Range(text)

-----------------------------------------------------------------------------
(* Facts: utils/facts.py.                                                   *)

(* The ids secrets.token_hex can give a fact.                               *)
FactIds == {"fact_a1", "fact_b2"}

NewFact(fid, text, created_by, scope, strength) ==
    [id |-> fid, text |-> Strip(text), scope |-> scope, strength |-> strength,
     tags |-> <<>>, created_by |-> created_by]

AddFact(fs, fact) == Append(fs, fact)

(* An entry of a stored list that is not a dict.                            *)
NotAFact == [junk |-> "note"]
IsFact(f) == "junk" \notin DOMAIN f

(* Mutant: the first fact with the id is removed.                           *)
RemoveFact_First(fs, fact_id) ==
    LET at == {i \in 1..Len(fs) : IsFact(fs[i]) /\ fs[i].id = fact_id}
    IN IF at = {} THEN fs ELSE RemoveAt(fs, MinOf(at))

(* [f for f in facts if isinstance(f, dict) and f.get("id") != fact_id]     *)
RemoveFact(fs, fact_id) ==
    LET Keep(f) == IsFact(f) /\ f.id # fact_id IN SelectSeq(fs, Keep)

(* What obj.db.facts holds: a list, None, or some other value.              *)
StoredList(items) == [kind |-> "list", items |-> items]
StoredNone == [kind |-> "None", items |-> <<>>]
StoredEmptyDict == [kind |-> "empty dict", items |-> <<>>]
StoredDict == [kind |-> "dict", items |-> <<>>]

(* remove_fact(obj, fact_id): what obj.db.facts holds afterwards, and the   *)
(* value returned.                                                          *)
RemoveFactFrom(stored, fact_id) ==
    LET falsy == stored.items = <<>> /\ stored.kind # "dict"
        facts == IF falsy THEN StoredList(<<>>) ELSE stored
        kept == RemoveFact(facts.items, fact_id)
    IN IF facts.kind # "list" THEN [stored |-> stored, result |-> FALSE]
       ELSE [stored |-> StoredList(kept), result |-> Len(kept) # Len(facts.items)]

-----------------------------------------------------------------------------
(* The speech dispatcher: SmartRoom.handle_speech.                          *)

ToRoom(text) == [to |-> "room", text |-> text]
ToSpeaker(text) == [to |-> "speaker", text |-> text]

MsgUsage == ToSpeaker("Try: say computer, create a brass cat idol")
MsgPaw == ToSpeaker("The room holds up a paw. Give it a second")

(* mem[-MEMORY_MAX:] *)
LastN(seq, n) == IF Len(seq) <= n THEN seq ELSE SubSeq(seq, Len(seq) - n + 1, Len(seq))

(* Mutant: a full buffer keeps its oldest entries.                          *)
Remember_KeepsOldest(who, message) ==
    SubSeq(Append(memory, [who |-> objs[who].key, msg |-> message]), 1,
           IF Len(memory) < MEMORY_MAX THEN Len(memory) + 1 ELSE MEMORY_MAX)

Remember(who, message) ==
    LastN(Append(memory, [who |-> objs[who].key, msg |-> message]), MEMORY_MAX)

(* Mutant: the tests of the chain look at the instruction as it was typed.  *)
Branch_CaseSensitive(instruction) ==
    LET lowinst == Strip(instruction)
        spaced == Len(lowinst) >= 2 /\ (IsWord(lowinst[2]) \/ lowinst[2] = " ")
    IN IF lowinst \in {<<"facts">>, <<"list", "facts">>, <<"show", "facts">>} THEN "facts"
       ELSE IF lowinst[1] = "unpin" /\ spaced
               /\ Len(LStrip(Tail(lowinst))) = 1 /\ IsIdent(lowinst[Len(lowinst)])
            THEN "unpin"
       ELSE IF lowinst[1] = "pin" /\ spaced THEN "pin"
       ELSE IF lowinst[1] \in {"destroy", "delete", "remove"} THEN "destroy"
       ELSE IF lowinst[1] \in {"edit", "update", "change", "recolor", "paint"} THEN "edit"
       ELSE IF lowinst[1] \in {"create", "make", "manifest", "summon"} THEN "create"
       ELSE "intent"

(* The branch of handle_speech an instruction is dispatched to: the first   *)
(* test of the chain that matches.                                          *)
Branch(instruction) ==
    LET lowinst == LowerText(Strip(instruction))
        spaced == Len(lowinst) >= 2 /\ (IsWord(lowinst[2]) \/ lowinst[2] = " ")
    IN IF lowinst \in {<<"facts">>, <<"list", "facts">>, <<"show", "facts">>} THEN "facts"
       ELSE IF lowinst[1] = "unpin" /\ spaced
               /\ Len(LStrip(Tail(lowinst))) = 1 /\ IsIdent(lowinst[Len(lowinst)])
            THEN "unpin"
       ELSE IF lowinst[1] = "pin" /\ spaced THEN "pin"
       ELSE IF lowinst[1] \in {"destroy", "delete", "remove"} THEN "destroy"
       ELSE IF lowinst[1] \in {"edit", "update", "change", "recolor", "paint"} THEN "edit"
       ELSE IF lowinst[1] \in {"create", "make", "manifest", "summon"} THEN "create"
       ELSE "intent"

LLMBranches == {"edit", "create", "intent"}

(* A deferToThread() call: queued, then (once its function has built the    *)
(* request in the worker pool) waiting for the chat completion.             *)
Call(kind, who, instruction, target) ==
    [kind |-> kind, speaker |-> who, instruction |-> instruction, target |-> target,
     phase |-> "queued"]

Rescheduled(pending) ==
    Append(SelectSeq(pending, NotHeld), Task(DESC_UPDATE_DEBOUNCE_S, "schedule", TRUE))

(* What a branch leaves alone when all it does is send messages.            *)
OnlySends(msgs, op) ==
    /\ sent' = msgs
    /\ last_op' = op
    /\ UNCHANGED <<llm_call_age, llm_calls, room_facts, contents, objs, tasks,
                   requests, request_state, since_llm>>

ListFacts(who) ==
    LET listed == {id \in Range(contents) : objs[id].notable /\ objs[id].facts # <<>>}
    IN OnlySends(IF room_facts = <<>> /\ listed = {}
                 THEN {ToSpeaker("No pinned facts yet.")}
                 ELSE {ToSpeaker("Room facts: / <key> facts:")}, "facts")

(* Mutant: unpin also removes the fact from the objects in the room.        *)
Unpin_Everywhere(who, instruction) ==
    LET fid == instruction[Len(instruction)]
        kept == RemoveFact(room_facts, fid)
    IN /\ room_facts' = kept
       /\ last_op' = "unpin"
       /\ IF Len(kept) # Len(room_facts)
          THEN /\ sent' = {ToRoom("The room nods. Unpinned <fid>.")}
               /\ ScheduleDescRewrite(tasks)
          ELSE /\ sent' = {ToSpeaker("I can't find a room fact with id '<fid>'.")}
               /\ UNCHANGED <<tasks, requests, request_state>>
       /\ objs' = [id \in 1..Len(objs) |->
                     IF id \in Range(contents)
                     THEN [objs[id] EXCEPT !.facts = RemoveFact(@, fid)]
                     ELSE objs[id]]
       /\ UNCHANGED <<llm_call_age, llm_calls, contents, since_llm>>

Unpin(who, instruction) ==
    LET fid == instruction[Len(instruction)]
        kept == RemoveFact(room_facts, fid)
    IN /\ room_facts' = kept
       /\ last_op' = "unpin"
       /\ IF Len(kept) # Len(room_facts)
          THEN /\ sent' = {ToRoom("The room nods. Unpinned <fid>.")}
               /\ ScheduleDescRewrite(tasks)
          ELSE /\ sent' = {ToSpeaker("I can't find a room fact with id '<fid>'.")}
               /\ UNCHANGED <<tasks, requests, request_state>>
       /\ UNCHANGED <<llm_call_age, llm_calls, contents, objs, since_llm>>

(* re.split(r"\s+to\s+", rest, maxsplit=1): where the first ' to ' is.      *)
ToAt(rest) ==
    {i \in 2..(Len(rest) - 1) :
        /\ Lower(rest[i]) = "to"
        /\ (IsWord(rest[i - 1]) \/ rest[i - 1] = " ")
        /\ (IsWord(rest[i + 1]) \/ rest[i + 1] = " ")}

(* Mutant: a fact whose target is not found is pinned to the room.          *)
Pin_FallsBackToRoom(who, instruction) ==
    LET rest == Strip(Tail(Strip(instruction)))
        split == ToAt(rest) # {}
        fact_text == IF split THEN Strip(SubSeq(rest, 1, MinOf(ToAt(rest)) - 1)) ELSE rest
        target_text == IF split THEN Strip(SubSeq(rest, MinOf(ToAt(rest)) + 1, Len(rest)))
                       ELSE <<>>
        found == FindObjectInRoom(objs, contents, target_text, FALSE)
    IN IF fact_text = <<>>
       THEN OnlySends({ToSpeaker("Try: say computer, pin This is a seaside lounge.")},
                      "pin_usage")
       ELSE \E fid \in FactIds :
              LET f == NewFact(fid, fact_text, objs[who].key, "pinned", 1)
              IN /\ IF target_text # <<>> /\ found # None
                    THEN /\ objs' = [objs EXCEPT ![found].facts = AddFact(@, f)]
                         /\ UNCHANGED room_facts
                    ELSE /\ room_facts' = AddFact(room_facts, f)
                         /\ UNCHANGED objs
                 /\ sent' = {ToRoom("The room remembers. Pinned: <fact>")}
                 /\ last_op' = "pin"
                 /\ ScheduleDescRewrite(tasks)
                 /\ UNCHANGED <<llm_call_age, llm_calls, contents, since_llm>>


Pin(who, instruction) ==
    LET rest == Strip(Tail(Strip(instruction)))
        split == ToAt(rest) # {}
        fact_text == IF split THEN Strip(SubSeq(rest, 1, MinOf(ToAt(rest)) - 1)) ELSE rest
        target_text == IF split THEN Strip(SubSeq(rest, MinOf(ToAt(rest)) + 1, Len(rest)))
                       ELSE <<>>
        found == FindObjectInRoom(objs, contents, target_text, FALSE)
    IN IF fact_text = <<>>
       THEN OnlySends({ToSpeaker("Try: say computer, pin This is a seaside lounge.")},
                      "pin_usage")
       ELSE IF target_text # <<>> /\ found = None
       THEN OnlySends({ToSpeaker("I couldn't find '<target>' to pin that to.")},
                      "pin_not_found")
       ELSE \E fid \in FactIds :
              LET f == NewFact(fid, fact_text, objs[who].key, "pinned", 1)
              IN /\ IF target_text # <<>>
                    THEN /\ objs' = [objs EXCEPT ![found].facts = AddFact(@, f)]
                         /\ UNCHANGED room_facts
                    ELSE /\ room_facts' = AddFact(room_facts, f)
                         /\ UNCHANGED objs
                 /\ sent' = {ToRoom("The room remembers. Pinned: <fact>")}
                 /\ last_op' = "pin"
                 /\ ScheduleDescRewrite(tasks)
                 /\ UNCHANGED <<llm_call_age, llm_calls, contents, since_llm>>

Destroy(who, instruction) ==
    LET remainder == Strip(StripArticle(Strip(Tail(Strip(instruction)))))
        removed == DeleteObjectBySelector(objs, contents, remainder)
    IN IF remainder = <<>>
       THEN OnlySends({ToSpeaker("Tell me what to destroy")}, "destroy_usage")
       ELSE IF removed = None
       THEN OnlySends((IF NotableProps(objs, contents) # <<>>
                       THEN {ToSpeaker("In this room I can remove: <notables>")} ELSE {})
                      \cup {ToSpeaker("I couldn't find '<remainder>'.")},
                      "destroy_not_found")
       ELSE /\ contents' = Without(contents, removed)
            /\ sent' = {ToRoom("The room complies. <key>(<dbref>) is removed.")}
            /\ last_op' = "destroy"
            /\ ScheduleDescRewrite(tasks)
            /\ UNCHANGED <<llm_call_age, llm_calls, room_facts, objs, since_llm>>

(* The gate the three LLM-backed branches share, rooms.py 329-334, 422-427  *)
(* and 461-466.                                                             *)
InLLMCooldown == llm_call_age < LLM_COOLDOWN_SECONDS

Rejected == OnlySends({MsgPaw}, "llm_cooldown")

(* deferToThread(...) *)
Launch(call, msgs, op) ==
    /\ llm_calls' = Append(llm_calls, call)
    /\ llm_call_age' = 0
    /\ since_llm' = 0
    /\ sent' = msgs
    /\ last_op' = op
    /\ UNCHANGED <<room_facts, contents, objs, tasks, requests, request_state>>

(* Mutant: the target the resolver returned is edited without the mention   *)
(* check.                                                                   *)
Edit_NoMentionCheck(who, instruction) ==
    LET resolved == ResolveEditTarget(objs, contents, instruction)
        target == resolved.target
        ambiguous == resolved.ambiguous
    IN IF InLLMCooldown THEN Rejected
       ELSE IF target = None
       THEN /\ llm_call_age' = 0
            /\ sent' = {IF ambiguous # <<>>
                        THEN ToSpeaker("Which one did you mean? Use a dbref")
                        ELSE IF NotableProps(objs, contents) # <<>>
                        THEN ToSpeaker("I couldn't tell what object you meant. I see: <notables>")
                        ELSE ToSpeaker("I couldn't tell what object you meant.")}
            /\ last_op' = "edit_no_target"
            /\ UNCHANGED <<llm_calls, room_facts, contents, objs, tasks, requests,
                           request_state, since_llm>>
       ELSE Launch(Call("edit", who, instruction, target),
                   {ToRoom("The room studies the object, considering your request")},
                   "edit")

Edit(who, instruction) ==
    LET resolved == ResolveEditTarget(objs, contents, instruction)
        mentioned == resolved.target # None
                         /\ InstructionMentionsTarget(instruction, objs[resolved.target])
        target == IF mentioned THEN resolved.target ELSE None
        ambiguous == IF resolved.target # None /\ ~mentioned THEN <<>>
                     ELSE resolved.ambiguous
    IN IF InLLMCooldown THEN Rejected
       ELSE IF target = None
       THEN /\ llm_call_age' = 0
            /\ sent' = {IF ambiguous # <<>>
                        THEN ToSpeaker("Which one did you mean? Use a dbref")
                        ELSE IF NotableProps(objs, contents) # <<>>
                        THEN ToSpeaker("I couldn't tell what object you meant. I see: <notables>")
                        ELSE ToSpeaker("I couldn't tell what object you meant.")}
            /\ last_op' = "edit_no_target"
            /\ UNCHANGED <<llm_calls, room_facts, contents, objs, tasks, requests,
                           request_state, since_llm>>
       ELSE Launch(Call("edit", who, instruction, target),
                   {ToRoom("The room studies the object, considering your request")},
                   "edit")

(* re.sub(r"^(create|make|manifest|summon)\s+", "", instruction).strip()    *)
CreateRemainder(instruction) ==
    IF Len(instruction) >= 2 /\ (IsWord(instruction[2]) \/ instruction[2] = " ")
    THEN Strip(Tail(instruction)) ELSE Strip(instruction)

Create(who, instruction) ==
    LET remainder == CreateRemainder(instruction)
    IN IF remainder = <<>> THEN OnlySends({MsgUsage}, "create_usage")
       ELSE IF InLLMCooldown THEN Rejected
       ELSE Launch(Call("create", who, remainder, None),
                   {ToRoom("The room listens. Something begins to take shape")},
                   "create")

(* Mutant: the intent router does not look at the cooldown.                 *)
Intent_NoGate(who, instruction) ==
    Launch(Call("intent", who, instruction, None),
           {ToRoom("The room tilts its head, interpreting")}, "intent")

Intent(who, instruction) ==
    IF InLLMCooldown THEN Rejected
    ELSE Launch(Call("intent", who, instruction, None),
                {ToRoom("The room tilts its head, interpreting")}, "intent")

Dispatch(who, instruction) ==
    LET branch == Branch(instruction)
    IN CASE branch = "facts" -> ListFacts(who)
         [] branch = "unpin" -> Unpin(who, instruction)
         [] branch = "pin" -> Pin(who, instruction)
         [] branch = "destroy" -> Destroy(who, instruction)
         [] branch = "edit" -> Edit(who, instruction)
         [] branch = "create" -> Create(who, instruction)
         [] OTHER -> Intent(who, instruction)

(* handle_speech(speaker, message), called by Character.at_say.             *)
HandleSpeech(who, message) ==
    LET norm == NormalizeSayMessage(Strip(message))
        instruction == ExtractComputerInstruction(norm)
    IN /\ speeches' = speeches + 1
       /\ heard' = [speaker |-> who, message |-> message]
       /\ returned' = NoData
       /\ memory' = IF message = <<>> THEN memory ELSE Remember(who, message)
       /\ IF message = <<>> \/ Strip(message) = <<>> \/ ~IsComputerAddressed(norm)
          THEN OnlySends({}, "speech")
          ELSE IF instruction = <<>> THEN OnlySends({MsgUsage}, "usage")
          ELSE Dispatch(who, instruction)
       /\ UNCHANGED <<auto_desc, desc, last_generated_desc, director_facts,
                      desc_rewrite_age, desc_rewrite_inflight, director_calls,
                      since_start, since_done, worker_writes, client>>

-----------------------------------------------------------------------------
(* The functions of utils/computer.py that handle_speech runs in the worker *)
(* pool, and their completion callbacks.                                    *)

InRoom(id) == \E i \in 1..Len(contents) : contents[i] = id

(* Mutant: generate_prop_edit_json does not look for its target first.      *)
WorkerRuns_NoShortCircuit ==
    \E i \in 1..Len(llm_calls) :
        LET call == llm_calls[i]
            notables == Range(NotableProps(objs, contents))
        IN /\ call.phase = "queued"
           /\ IF FALSE
              THEN /\ llm_calls' = [llm_calls EXCEPT ![i].phase = "no_target"]
                   /\ UNCHANGED <<objs, worker_writes>>
              ELSE IF call.kind = "edit"
              THEN /\ llm_calls' = [llm_calls EXCEPT ![i].phase = "llm"]
                   /\ objs' = EnsuredNotables(
                                 [objs EXCEPT ![call.target].affordance = EnsureAffordance(@)],
                                 contents)
                   /\ worker_writes' = worker_writes
                                         \cup AffordanceWrites({call.target} \cup notables)
              ELSE /\ llm_calls' = [llm_calls EXCEPT ![i].phase = "llm"]
                   /\ objs' = EnsuredNotables(objs, contents)
                   /\ worker_writes' = worker_writes \cup AffordanceWrites(notables)
           /\ sent' = {}
           /\ last_op' = "worker"
           /\ returned' = NoData
           /\ UNCHANGED <<auto_desc, desc, last_generated_desc, director_facts,
                          desc_rewrite_age, desc_rewrite_inflight, tasks, director_calls,
                          requests, request_state, since_start, since_done,
                          llm_call_age, memory, room_facts, contents, heard, speeches,
                          since_llm, client>>

(* generate_prop_json, predict_intent, generate_prop_edit_json up to the    *)
(* chat completion: the function reads the room and, through                *)
(* ensure_affordance, writes db.affordance of the objects it describes.     *)
WorkerRuns ==
    \E i \in 1..Len(llm_calls) :
        LET call == llm_calls[i]
            notables == Range(NotableProps(objs, contents))
        IN /\ call.phase = "queued"
           /\ IF call.kind = "edit" /\ ~InRoom(call.target)
              THEN /\ llm_calls' = [llm_calls EXCEPT ![i].phase = "no_target"]
                   /\ UNCHANGED <<objs, worker_writes>>
              ELSE IF call.kind = "edit"
              THEN /\ llm_calls' = [llm_calls EXCEPT ![i].phase = "llm"]
                   /\ objs' = EnsuredNotables(
                                 [objs EXCEPT ![call.target].affordance = EnsureAffordance(@)],
                                 contents)
                   /\ worker_writes' = worker_writes
                                         \cup AffordanceWrites({call.target} \cup notables)
              ELSE /\ llm_calls' = [llm_calls EXCEPT ![i].phase = "llm"]
                   /\ objs' = EnsuredNotables(objs, contents)
                   /\ worker_writes' = worker_writes \cup AffordanceWrites(notables)
           /\ sent' = {}
           /\ last_op' = "worker"
           /\ returned' = NoData
           /\ UNCHANGED <<auto_desc, desc, last_generated_desc, director_facts,
                          desc_rewrite_age, desc_rewrite_inflight, tasks, director_calls,
                          requests, request_state, since_start, since_done,
                          llm_call_age, memory, room_facts, contents, heard, speeches,
                          since_llm, client>>

(* What the chat completion can answer: any mapping, or no usable answer    *)
(* from any provider (chat_json raises).                                    *)
EditReplies ==
    {LLMFailure,
     [dbref |-> <<"#2">>, key |-> <<"Red", " ", "Lamp">>, shortdesc |-> <<"a", "red", "lamp">>,
      desc |-> <<"painted">>],
     [dbref |-> <<>>, key |-> <<"42">>, shortdesc |-> <<>>, desc |-> <<"painted", " ">>],
     [dbref |-> <<"#9">>, key |-> <<"Red", "Lamp">>, shortdesc |-> <<"a", "red", "lamp">>,
      desc |-> <<"painted">>]}

EmptyEdit == [dbref |-> <<>>, key |-> <<>>, shortdesc |-> <<>>, desc |-> <<>>]

CreateReplies ==
    {LLMFailure,
     [key |-> <<"Cat">>, shortdesc |-> <<"a", "cat">>, desc |-> <<"purring">>],
     [key |-> <<" ">>, shortdesc |-> <<>>, desc |-> <<>>],
     [key |-> <<"Cat">>, shortdesc |-> <<"a", "cat">>, desc |-> <<>>, desc_type |-> "list"]}

(* (propdata.get("desc") or ...).strip() raises when desc is not a string.  *)
DescNotString(propdata) == "desc_type" \in DOMAIN propdata

IntentReplies ==
    {LLMFailure,
     [intent |-> "create", normalized |-> <<"create", "cat">>],
     [intent |-> "destroy", normalized |-> <<"destroy", "lamp">>],
     [intent |-> "unknown", normalized |-> <<"create", "cat">>],
     [intent |-> "pin", normalized |-> <<" ">>]}

(* re.sub(r"\s+", " ", text).strip()                                        *)
CollapseSpaces(text) ==
    LET NotBlank(tok) == tok # " " IN SelectSeq(text, NotBlank)

(* re.search(r"[A-Za-z]", text)                                             *)
HasLetter(text) == \E i \in 1..Len(text) : IsIdent(text[i]) /\ text[i] # "42"

Finished(i, op) ==
    /\ llm_calls' = RemoveAt(llm_calls, i)
    /\ last_op' = op
    /\ UNCHANGED <<auto_desc, desc, last_generated_desc, director_facts,
                   desc_rewrite_age, desc_rewrite_inflight, director_calls,
                   since_start, since_done, llm_call_age, memory, heard, speeches,
                   since_llm, worker_writes, client>>

(* The callbacks of the edit call, rooms.py 364-407.  The target is the     *)
(* object the closure holds; once it has been deleted, writing to it either *)
(* raises or changes the detached object.                                   *)
MsgHesitates == ToRoom("The room hesitates. The edit doesn't take.")

EditOnFail ==
    /\ sent' = {MsgHesitates}
    /\ UNCHANGED <<room_facts, contents, objs, tasks, requests, request_state>>

EditOnOk(target, data) ==
    LET resp_dbref == Strip(data.dbref)
        new_key == Strip(CollapseSpaces(Strip(data.key)))
        new_sd == Strip(CollapseSpaces(Strip(data.shortdesc)))
        new_desc == Strip(data.desc)
        key == IF new_key # <<>> /\ HasLetter(new_key) /\ new_key # objs[target].key
               THEN new_key ELSE objs[target].key
    IN IF resp_dbref # <<>> /\ resp_dbref # <<Dbref(target)>> THEN EditOnFail
       ELSE \/ ~InRoom(target) /\ EditOnFail
            \/ /\ objs' = [objs EXCEPT
                              ![target].key = key,
                              ![target].shortdesc = IF new_sd # <<>> THEN new_sd ELSE @,
                              ![target].desc = IF new_desc # <<>> THEN new_desc ELSE @]
               /\ sent' = {ToRoom("Reality tweaks itself. <key> now looks a little different.")}
               /\ ScheduleDescRewrite(tasks)
               /\ UNCHANGED <<room_facts, contents>>

EditReturns ==
    \E i \in 1..Len(llm_calls) :
        /\ llm_calls[i].kind = "edit"
        /\ llm_calls[i].phase \in {"llm", "no_target"}
        /\ \E reply \in IF llm_calls[i].phase = "llm" THEN EditReplies ELSE {EmptyEdit} :
              /\ returned' = reply
              /\ IF Raised(reply) THEN EditOnFail
                 ELSE EditOnOk(llm_calls[i].target, reply)
        /\ Finished(i, "edit_done")

(* The callbacks of the create call, rooms.py 434-452, with _manifest_prop  *)
(* and the at_object_receive it sets off.                                   *)
MsgSputters == ToRoom("The room sputters. The manifestation fails.")

(* Mutant: when the create call fails the room manifests a placeholder.     *)
CreateOnFail_Manifests ==
    /\ sent' = {MsgSputters}
    /\ objs' = Append(objs, Object("prop", <<"Cat">>, <<>>, <<>>, TRUE, ManifestAffordance))
    /\ contents' = Append(contents, Len(objs) + 1)
    /\ UNCHANGED <<room_facts, tasks, requests, request_state>>

CreateOnFail ==
    /\ sent' = {MsgSputters}
    /\ UNCHANGED <<room_facts, contents, objs, tasks, requests, request_state>>

(* _is_scene_object(obj) *)
IsSceneObject(o) == IsProp(o) /\ o.notable

(* at_object_receive(moved_obj, ...) schedules a rewrite.                   *)
AtObjectReceive(moved_obj) == auto_desc /\ IsSceneObject(moved_obj)

(* _manifest_prop: the object as it is when move_to(self) is called.  It is *)
(* created with location=None, and shortdesc, desc, notable, facts and      *)
(* affordance are set before the move.                                      *)
ManifestProp(key, shortdesc, odesc) ==
    Object("prop", key, shortdesc, odesc, TRUE, ManifestAffordance)

(* Mutant: the object is created in the room, so that the arrival hook runs *)
(* before _manifest_prop has set anything.                                  *)
CreateOnOk_CreatedInRoom(remainder, propdata) ==
    LET key == IF Strip(propdata.key) # <<>> THEN Strip(propdata.key)
               ELSE TitleText(Strip(remainder))
        shortdesc == IF Strip(propdata.shortdesc) # <<>> THEN Strip(propdata.shortdesc)
                     ELSE <<"a", "manifested">> \o Strip(remainder)
        odesc == IF Strip(propdata.desc) # <<>> THEN Strip(propdata.desc)
                 ELSE <<"A", "newly", "manifested">> \o Strip(remainder)
        obj == Len(objs) + 1
        arrived == AtObjectReceive(Object("prop", key, <<>>, <<>>, FALSE, NoneValue))
    IN /\ objs' = Append(objs, ManifestProp(key, shortdesc, odesc))
       /\ contents' = Append(contents, obj)
       /\ tasks' = Rescheduled(IF arrived THEN Rescheduled(tasks) ELSE tasks)
       /\ requests' = requests + (IF arrived THEN 2 ELSE 1)
       /\ request_state' = "waiting"
       /\ sent' = {ToRoom("The room hums. <shortdesc> appears at <speaker>'s request.")}
       /\ UNCHANGED room_facts

CreateOnOk(remainder, propdata) ==
    LET key == IF Strip(propdata.key) # <<>> THEN Strip(propdata.key)
               ELSE TitleText(Strip(remainder))
        shortdesc == IF Strip(propdata.shortdesc) # <<>> THEN Strip(propdata.shortdesc)
                     ELSE <<"a", "manifested">> \o Strip(remainder)
        odesc == IF Strip(propdata.desc) # <<>> THEN Strip(propdata.desc)
                 ELSE <<"A", "newly", "manifested">> \o Strip(remainder)
        obj == Len(objs) + 1
        made == ManifestProp(key, shortdesc, odesc)
        arrived == AtObjectReceive(made)
    IN /\ objs' = Append(objs, made)
       /\ contents' = Append(contents, obj)
       /\ tasks' = Rescheduled(IF arrived THEN Rescheduled(tasks) ELSE tasks)
       /\ requests' = requests + (IF arrived THEN 2 ELSE 1)
       /\ request_state' = "waiting"
       /\ sent' = {ToRoom("The room hums. <shortdesc> appears at <speaker>'s request.")}
       /\ UNCHANGED room_facts

CreateReturns ==
    \E i \in 1..Len(llm_calls) :
        /\ llm_calls[i].kind = "create"
        /\ llm_calls[i].phase = "llm"
        /\ \E reply \in CreateReplies :
              /\ returned' = reply
              /\ IF Raised(reply) \/ DescNotString(reply) THEN CreateOnFail
                 ELSE CreateOnOk(llm_calls[i].instruction, reply)
        /\ Finished(i, "create_done")

(* The callbacks of the intent call, rooms.py 473-501.                      *)
MsgNoIntent == ToSpeaker("I couldn't interpret that.")

IntentFail ==
    /\ sent' = {MsgNoIntent}
    /\ UNCHANGED <<room_facts, contents, objs, tasks, requests, request_state>>

(* The two texts _ok sends: the verb menu, and the suggested command.       *)
MsgMenu == ToSpeaker("I'm not sure what you meant. Try one of: ...")

Suggest(normalized) ==
    [to |-> "speaker", text |-> "I can't run that as-written, but I think you meant:",
     normalized |-> normalized]

(* Mutant: the completion runs the destroy command the router suggests.     *)
IntentOk_Executes(data) ==
    LET normalized == Strip(data.normalized)
        removed == IF normalized = <<>> THEN None
                   ELSE DeleteObjectBySelector(objs, contents, Strip(Tail(normalized)))
    IN /\ sent' = {IF normalized = <<>> \/ data.intent = "unknown"
                   THEN MsgMenu ELSE Suggest(normalized)}
       /\ IF data.intent = "destroy" /\ removed # None
          THEN /\ contents' = Without(contents, removed)
               /\ ScheduleDescRewrite(tasks)
               /\ UNCHANGED <<room_facts, objs>>
          ELSE UNCHANGED <<room_facts, contents, objs, tasks, requests, request_state>>

IntentOk(data) ==
    LET normalized == Strip(data.normalized)
    IN /\ sent' = {IF normalized = <<>> \/ data.intent = "unknown"
                   THEN MsgMenu ELSE Suggest(normalized)}
       /\ UNCHANGED <<room_facts, contents, objs, tasks, requests, request_state>>

IntentReturns ==
    \E i \in 1..Len(llm_calls) :
        /\ llm_calls[i].kind = "intent"
        /\ llm_calls[i].phase = "llm"
        /\ \E reply \in IntentReplies :
              /\ returned' = reply
              /\ IF Raised(reply) THEN IntentFail ELSE IntentOk(reply)
        /\ Finished(i, "intent_done")

(* What the characters in the room say.                                     *)
Speeches ==
    {<<"hello">>,
     <<"Computer", ",", "pin", "cosy">>,
     <<"computer", ",", "paint", "lamp", "red">>,
     <<"computer", ",", "change", "it">>,
     <<"computer", ",", "create", "cat">>,
     <<"computer", "dance">>}

Says ==
    /\ speeches < MaxSpeech
    /\ \E message \in Speeches : HandleSpeech(Speaker, message)

-----------------------------------------------------------------------------
(* Time.                                                                    *)

Min(a, b) == IF a < b THEN a ELSE b

Lefts == {tasks[i].left : i \in 1..Len(tasks)}

Older(age, d, cap) == IF age = Never THEN Never ELSE Min(age + d, cap)

(* The clock moves on by d ticks; a due task runs before the clock moves.   *)
Tick ==
    /\ \A l \in Lefts : l > 0
    /\ \E d \in {TickQuantum} \cup Lefts :
          /\ \A l \in Lefts : d <= l
          /\ d <= TickQuantum
          /\ desc_rewrite_age' = Min(desc_rewrite_age + d, DESC_UPDATE_COOLDOWN_S)
          /\ tasks' = [i \in 1..Len(tasks) |-> [tasks[i] EXCEPT !.left = tasks[i].left - d]]
          /\ since_start' = Older(since_start, d, DESC_UPDATE_COOLDOWN_S)
          /\ since_done' = Older(since_done, d, DESC_UPDATE_COOLDOWN_S)
          /\ llm_call_age' = Min(llm_call_age + d, LLM_COOLDOWN_SECONDS)
          /\ since_llm' = Older(since_llm, d, LLM_COOLDOWN_SECONDS)
    /\ sent' = {}
    /\ last_op' = "tick"
    /\ returned' = NoData
    /\ UNCHANGED <<auto_desc, desc, last_generated_desc, director_facts,
                   desc_rewrite_inflight, director_calls, requests, request_state,
                   llm_calls, memory, room_facts, contents, heard, speeches,
                   worker_writes, objs, client>>

-----------------------------------------------------------------------------
(* LLMClient.chat_json and the retry loop of _call_chat_completions_json.   *)

roomVars == <<auto_desc, desc, last_generated_desc, director_facts, desc_rewrite_age,
              desc_rewrite_inflight, tasks, director_calls, sent, last_op, returned,
              requests, request_state, since_start, since_done, llm_call_age,
              llm_calls, memory, room_facts, contents, heard, speeches, since_llm,
              worker_writes, objs>>

(* A provider; one whose base_url is not a string makes the call raise      *)
(* before the first request.                                                *)
ProviderLists ==
    UNION {[1..n -> [label : {"LOCAL", "OPENAI"}, base_url_ok : BOOLEAN]] :
              n \in 0..MaxProviders}

(* What client.post() can end with: an exception, a status, and for a       *)
(* status below 400 a body that is the expected JSON or is not.             *)
Contents ==
    {Str(<<"{", "k:", "s", "}">>), Str(<<"x", " ", "{", "}", " ", "x">>),
     Str(<<"[", "s", "]">>), Str(<<"x">>), NoText}

Responses ==
    {[raised |-> TRUE, status_code |-> 0, json_ok |-> FALSE, content |-> NoText]}
    \cup [raised : {FALSE}, status_code : {400, 503}, json_ok : {FALSE}, content : {NoText}]
    \cup [raised : {FALSE}, status_code : {200}, json_ok : {FALSE}, content : {NoText}]
    \cup [raised : {FALSE}, status_code : {200}, json_ok : {TRUE}, content : Contents]

AllFailed(last_exc) ==
    [error |-> "RuntimeError: All LLM providers failed", last_exception |-> last_exc]

(* chat_json(providers, messages) is called.                                *)
ChatJson ==
    /\ client.pc = "idle"
    /\ \E providers \in ProviderLists :
          client' = IF providers = <<>>
                    THEN [client EXCEPT !.pc = "raised", !.out = AllFailed("None")]
                    ELSE [client EXCEPT !.pc = "calling", !.providers = providers,
                                        !.provider = 1]
    /\ UNCHANGED roomVars

(* Mutant: when the last provider has failed, chat_json returns None.       *)
ProviderFailed_ReturnsNone(exc) ==
    LET failed == Append(client.failed, client.provider)
    IN IF client.provider = Len(client.providers)
       THEN [client EXCEPT !.pc = "returned", !.failed = failed, !.last_exc = exc,
                           !.out = NoneValue]
       ELSE [client EXCEPT !.provider = @ + 1, !.attempt = 0, !.last_err = "None",
                           !.failed = failed, !.last_exc = exc]

(* The except clause of chat_json, then the next provider or the final      *)
(* raise.                                                                   *)
ProviderFailed(exc) ==
    LET failed == Append(client.failed, client.provider)
    IN IF client.provider = Len(client.providers)
       THEN [client EXCEPT !.pc = "raised", !.failed = failed, !.last_exc = exc,
                           !.out = AllFailed(exc)]
       ELSE [client EXCEPT !.provider = @ + 1, !.attempt = 0, !.last_err = "None",
                           !.failed = failed, !.last_exc = exc]

(* Mutant: a provider that answers with a JSON object does not end the      *)
(* loop over the providers.                                                 *)
Post_NoShortCircuit ==
    /\ client.pc = "calling"
    /\ client.providers[client.provider].base_url_ok
    /\ client.attempt < max_attempts
    /\ \E r \in Responses :
          LET parsed == IF r.raised \/ r.status_code >= 400 \/ ~r.json_ok THEN NoneValue
                        ELSE ExtractJsonFromText(r.content)
              posted == [client EXCEPT !.attempt = @ + 1, !.response = r,
                                       !.posts = Append(@, client.provider)]
          IN client' = IF parsed.dict /\ client.provider = Len(client.providers)
                       THEN [posted EXCEPT !.pc = "returned", !.out = parsed]
                       ELSE IF parsed.dict
                       THEN [posted EXCEPT !.out = parsed, !.provider = @ + 1,
                                           !.attempt = 0]
                       ELSE [posted EXCEPT !.last_err =
                                              IF r.raised \/ (r.status_code < 400 /\ ~r.json_ok)
                                              THEN "repr(exc)"
                                              ELSE IF r.status_code >= 400 THEN "HTTP"
                                              ELSE "JSON parse failed"]
    /\ UNCHANGED roomVars

(* Mutant: an HTTP error status ends the call with an exception.            *)
Post_HttpErrorRaises ==
    /\ client.pc = "calling"
    /\ client.providers[client.provider].base_url_ok
    /\ client.attempt < max_attempts
    /\ \E r \in Responses :
          LET parsed == IF r.raised \/ r.status_code >= 400 \/ ~r.json_ok THEN NoneValue
                        ELSE ExtractJsonFromText(r.content)
              posted == [client EXCEPT !.attempt = @ + 1, !.response = r,
                                       !.posts = Append(@, client.provider)]
          IN client' = IF parsed.dict
                       THEN [posted EXCEPT !.pc = "returned", !.out = parsed]
                       ELSE IF ~r.raised /\ r.status_code >= 400
                       THEN [posted EXCEPT !.pc = "raised", !.out = [error |-> "HTTP"]]
                       ELSE [posted EXCEPT !.last_err =
                                              IF r.raised \/ (r.status_code < 400 /\ ~r.json_ok)
                                              THEN "repr(exc)"
                                              ELSE "JSON parse failed"]
    /\ UNCHANGED roomVars

(* One turn of the retry loop: a request, and what is made of its answer.   *)
Post ==
    /\ client.pc = "calling"
    /\ client.providers[client.provider].base_url_ok
    /\ client.attempt < max_attempts
    /\ \E r \in Responses :
          LET parsed == IF r.raised \/ r.status_code >= 400 \/ ~r.json_ok THEN NoneValue
                        ELSE ExtractJsonFromText(r.content)
              posted == [client EXCEPT !.attempt = @ + 1, !.response = r,
                                       !.posts = Append(@, client.provider)]
          IN client' = IF parsed.dict
                       THEN [posted EXCEPT !.pc = "returned", !.out = parsed]
                       ELSE [posted EXCEPT !.last_err =
                                              IF r.raised \/ (r.status_code < 400 /\ ~r.json_ok)
                                              THEN "repr(exc)"
                                              ELSE IF r.status_code >= 400 THEN "HTTP"
                                              ELSE "JSON parse failed"]
    /\ UNCHANGED roomVars

(* The loop has used its attempts: the call returns None.                   *)
Exhausted ==
    /\ client.pc = "calling"
    /\ client.providers[client.provider].base_url_ok
    /\ client.attempt >= max_attempts
    /\ client' = ProviderFailed("RuntimeError: Provider returned no JSON (None)")
    /\ UNCHANGED roomVars

(* The call raises while it builds the request.                             *)
CallRaises ==
    /\ client.pc = "calling"
    /\ ~client.providers[client.provider].base_url_ok
    /\ client' = ProviderFailed("AttributeError")
    /\ UNCHANGED roomVars

ClientNext ==
    \/ ChatJson
    \/ Post
    \/ Exhausted
    \/ CallRaises

ClientSpec == Init /\ [][ClientNext]_vars

(* _extract_json_from_text(text, label) is called.                          *)
Texts == {NoText} \cup {Str(t) : t \in UNION {[1..n -> JsonTokens] : n \in 0..MaxJsonLen}}

Extract ==
    /\ client.pc = "idle"
    /\ \E text \in Texts :
          client' = [client EXCEPT !.pc = "extracted", !.text = text,
                                   !.out = ExtractJsonFromText(text)]
    /\ UNCHANGED roomVars

ExtractSpec == Init /\ [][Extract]_vars

Next ==
    \/ RequestRewrite
    \/ TaskFires
    \/ RewriteReturns
    \/ SetAutoDesc
    \/ Tick

Spec == Init /\ [][Next]_vars

(* The room with its speech dispatcher and the calls it launches.           *)
SpeechNext ==
    \/ Says
    \/ WorkerRuns
    \/ EditReturns
    \/ CreateReturns
    \/ IntentReturns
    \/ TaskFires
    \/ RewriteReturns
    \/ Tick

SpeechSpec == Init /\ [][SpeechNext]_vars

(* The room with a character who asks for edits and removals.               *)
EditSpeeches ==
    {<<"computer", ",", "paint", "lamp", "red">>,
     <<"computer", ",", "change", "#2">>,
     <<"computer", ",", "destroy", "the", "lamp">>}

SaysEdit ==
    /\ speeches < MaxSpeech
    /\ \E message \in EditSpeeches : HandleSpeech(Speaker, message)

EditNext ==
    \/ SaysEdit
    \/ WorkerRuns
    \/ EditReturns
    \/ TaskFires
    \/ RewriteReturns
    \/ Tick

EditSpec == Init /\ [][EditNext]_vars

(* The room with a character who pins and unpins facts, and the tasks of    *)
(* the rewrites these commands schedule.  The calls the tasks and the       *)
(* router launch stay pending: their completions touch neither the facts    *)
(* nor the tasks.                                                           *)
FactSpeeches ==
    {<<"computer", ",", "pin", " ", "cosy", " ">>,
     <<"computer", ",", "PIN", "warm", "to", "lamp">>,
     <<"computer", ",", "pin", "warm", "to", "ghost">>,
     <<"computer", ",", "pin", "warm", "to", "#1">>,
     <<"computer", ",", "pin">>,
     <<"computer", ",", "unpin", "fact_a1">>,
     <<"computer", ",", "facts">>}

SaysFact ==
    /\ speeches < MaxFactSpeech
    /\ \E message \in FactSpeeches : HandleSpeech(Speaker, message)

FactsNext ==
    \/ SaysFact
    \/ TaskFires
    \/ Tick

FactsSpec == Init /\ [][FactsNext]_vars

(* A room staged by a builder: the speaker with, in any order, some of a    *)
(* notable red brass lamp, a notable blue lamp, a plain prop keyed Lamp whose    *)
(* shortdesc is the blue lamp's key, and an exit.                           *)
StagedObjects ==
    << Object("character", <<"Ann">>, <<>>, <<>>, FALSE, NoneValue),
       Object("prop", <<"Brass", "Lamp">>, <<"a", "red", "brass", "lamp">>, <<"shiny">>, TRUE,
              ManifestAffordance),
       Object("prop", <<"Blue", "Lamp">>, <<"a", "blue", "lamp">>, <<"dim">>, TRUE,
              ManifestAffordance),
       Object("prop", <<"Lamp">>, <<"blue", "lamp">>, <<>>, FALSE, NoneValue),
       Object("exit", <<"Lamp", "Door">>, <<>>, <<>>, FALSE, NoneValue) >>

StagedRooms ==
    {<<Speaker>> \o s :
        s \in {q \in UNION {[1..n -> 2..Len(StagedObjects)] :
                               n \in 0..(Len(StagedObjects) - 1)} :
                  \A i, j \in 1..Len(q) : i # j => q[i] # q[j]}}

StagedInit == \E inroom \in StagedRooms : InitWith(StagedObjects, inroom, <<>>)

(* The texts the helpers of utils/room_object_query.py and                  *)
(* utils/room_targeting.py are called with.                                 *)
QueryTexts ==
    {<<>>, <<" ">>, <<"lamp">>, <<" ", "LAMP", " ">>, <<"blue", "lamp">>,
     <<"a", "brass", "lamp">>, <<"brass", "lamp">>, <<"blue">>, <<"door">>, <<"a">>,
     <<"lamp", "door">>, <<"ann">>, <<"ghost">>, <<"#2">>, <<"#4">>, <<"#5">>,
     <<"#1">>, <<"#9">>, <<"#2", "lamp">>}

Instructions ==
    {<<>>, <<"change", "it", "to", "blue">>, <<"Change", "lamp", "to", "green">>,
     <<"paint", "it", "red">>,
     <<"paint", "the", "brass", "lamp", "red">>, <<"paint", "blue", "lamp", "red">>,
     <<"paint", "brass", "blue", "red">>, <<"change", "door">>, <<"change", "ann">>,
     <<"change", "ghost">>, <<"paint", "#5", "red">>, <<"paint", "lamp", "#4">>,
     <<"paint", "#9", "lamp">>}

queryFrame == <<auto_desc, desc, last_generated_desc, director_facts, desc_rewrite_age,
                desc_rewrite_inflight, tasks, director_calls, requests, request_state,
                since_start, since_done, llm_call_age, llm_calls, memory, room_facts,
                speeches, since_llm, worker_writes, objs, client>>

(* find_object_in_room(room, target_text, notable_only) is called.          *)
FindObject ==
    \E target_text \in QueryTexts, notable_only \in BOOLEAN :
        /\ heard' = [fn |-> "find_object_in_room", text |-> target_text,
                     notable_only |-> notable_only]
        /\ returned' = [obj |-> FindObjectInRoom(objs, contents, target_text, notable_only)]
        /\ last_op' = "find_object_in_room"
        /\ sent' = {}
        /\ UNCHANGED <<queryFrame, contents>>

(* {"key": obj.key, "dbref": str(obj.dbref)}, or None.                      *)
Removed(os, id) ==
    IF id = None THEN NoData ELSE [key |-> os[id].key, dbref |-> Dbref(id)]

(* delete_object_by_selector(room, selector) is called; obj.delete() takes  *)
(* the object out of the room.                                              *)
DeleteObject ==
    \E selector \in QueryTexts :
        LET id == DeleteObjectBySelector(objs, contents, selector)
        IN /\ heard' = [fn |-> "delete_object_by_selector", text |-> selector]
           /\ returned' = Removed(objs, id)
           /\ contents' = IF id = None THEN contents ELSE Without(contents, id)
           /\ last_op' = "delete_object_by_selector"
           /\ sent' = {}
           /\ UNCHANGED queryFrame

(* resolve_edit_target(room, instruction) is called.                        *)
ResolveTarget ==
    \E instruction \in Instructions :
        /\ heard' = [fn |-> "resolve_edit_target", text |-> instruction]
        /\ returned' = ResolveEditTarget(objs, contents, instruction)
        /\ last_op' = "resolve_edit_target"
        /\ sent' = {}
        /\ UNCHANGED <<queryFrame, contents>>

(* instruction_mentions_target(instruction, target) is called.              *)
MentionsTarget ==
    \E instruction \in Instructions, target \in Range(contents) :
        /\ heard' = [fn |-> "instruction_mentions_target", text |-> instruction,
                     target |-> target]
        /\ returned' = [mentions |-> InstructionMentionsTarget(instruction, objs[target])]
        /\ last_op' = "instruction_mentions_target"
        /\ sent' = {}
        /\ UNCHANGED <<queryFrame, contents>>

QueryNext ==
    \/ FindObject
    \/ DeleteObject
    \/ ResolveTarget
    \/ MentionsTarget

QuerySpec == StagedInit /\ [][QueryNext]_vars

(* The staged room with a character who asks for removals and edits; the   *)
(* calls the tasks and the edits launch stay pending.                       *)
TargetSpeeches ==
    {<<"computer", ",", "destroy", "lamp">>,
     <<"computer", ",", "destroy", "blue">>,
     <<"computer", ",", "remove", "the", "ghost">>,
     <<"computer", ",", "delete", "lamp", "door">>,
     <<"computer", ",", "delete", "#5">>,
     <<"computer", ",", "destroy">>,
     <<"computer", ",", "change", "it", "to", "blue">>,
     <<"computer", ",", "paint", "it", "red">>,
     <<"computer", ",", "paint", "lamp", "green">>,
     <<"computer", ",", "paint", "ghost">>,
     <<"computer", ",", "change", "#4", "to", "red">>}

SaysTarget ==
    /\ speeches < MaxSpeech
    /\ \E message \in TargetSpeeches : HandleSpeech(Speaker, message)

TargetNext ==
    \/ SaysTarget
    \/ TaskFires
    \/ Tick

TargetSpec == StagedInit /\ [][TargetNext]_vars

(* The values remove_fact and ensure_affordance find stored on an object.   *)
StoredEntries ==
    {NewFact("fact_a1", <<"cosy">>, <<"Ann">>, "pinned", 1),
     NewFact("fact_a1", <<"warm">>, <<"Ann">>, "pinned", 1),
     NewFact("fact_b2", <<"dim">>, <<"Ann">>, "pinned", 1),
     NotAFact}

StoredFacts ==
    {StoredNone, StoredEmptyDict, StoredDict}
        \cup {StoredList(items) :
                 items \in UNION {[1..n -> StoredEntries] : n \in 0..MaxStored}}

StoredContainers ==
    {NoneValue, Dict(EmptyMap), Dict([is_container |-> TRUE, capacity_weight |-> 10]),
     Dict([is_container |-> TRUE, capacity_weight |-> 10, openable |-> TRUE,
           is_open |-> FALSE])}

StoredAffordances ==
    {NoneValue}
        \cup {Dict([k \in keys |->
                      CASE k = "unit" -> "kg"
                        [] k = "weight" -> 5
                        [] k = "immovable" -> TRUE
                        [] k = "manipulations" -> <<"push">>
                        [] OTHER -> container]) :
                 keys \in SUBSET DOMAIN DefaultAffordance, container \in StoredContainers}

(* remove_fact(obj, fact_id) is called.                                     *)
RemoveFactCall ==
    \E stored \in StoredFacts, fact_id \in FactIds :
        /\ heard' = [fn |-> "remove_fact", stored |-> stored, fact_id |-> fact_id]
        /\ returned' = RemoveFactFrom(stored, fact_id)
        /\ last_op' = "remove_fact"
        /\ sent' = {}
        /\ UNCHANGED <<queryFrame, contents>>

(* ensure_affordance(obj) is called, on a stored value or on the value the  *)
(* call before it stored.                                                   *)
EnsureAffordanceCall ==
    \E again \in {b \in BOOLEAN : b => last_op = "ensure_affordance"} :
        \E affordance \in IF again THEN {returned} ELSE StoredAffordances :
            /\ heard' = [fn |-> "ensure_affordance", affordance |-> affordance,
                         again |-> again]
            /\ returned' = EnsureAffordance(affordance)
            /\ last_op' = "ensure_affordance"
            /\ sent' = {}
            /\ UNCHANGED <<queryFrame, contents>>

StoreNext ==
    \/ RemoveFactCall
    \/ EnsureAffordanceCall

StoreSpec == Init /\ [][StoreNext]_vars

(* The room after this many lines of speech, with a character who speaks   *)
(* to the others and to the computer.                                       *)
Remembered(n) ==
    [i \in 1..n |-> [who |-> <<"Ann">>,
                     msg |-> IF i % 2 = 1 THEN <<"hello">> ELSE <<"again">>]]

MemoryInit ==
    \E n \in {0, MEMORY_MAX - 1, MEMORY_MAX} :
        InitWith(InitialObjects, <<1, 2>>, Remembered(n))

MemorySpeeches ==
    {<<>>, <<" ">>, <<"hello">>, <<"so", "long">>, <<"computer", ",", "facts">>}

SaysMemory ==
    /\ speeches < MaxFactSpeech
    /\ \E message \in MemorySpeeches : HandleSpeech(Speaker, message)

MemorySpec == MemoryInit /\ [][SaysMemory]_vars

(* The room with a character who asks for new props, while a builder       *)
(* switches the automatic description on and off.                           *)
CreateSpeeches ==
    {<<"computer", ",", "create", "cat">>,
     <<"computer", ",", "summon", "red", "lamp">>,
     <<"computer", ",", "create">>}

SaysCreate ==
    /\ speeches < MaxSpeech
    /\ \E message \in CreateSpeeches : HandleSpeech(Speaker, message)

CreateNext ==
    \/ SaysCreate
    \/ WorkerRuns
    \/ CreateReturns
    \/ SetAutoDesc
    \/ TaskFires
    \/ Tick

CreateSpec == Init /\ [][CreateNext]_vars

-----------------------------------------------------------------------------
(* The request payloads of utils/computer.py.                               *)

(* A value as the attribute storage hands it back: text, a byte string, a   *)
(* number, None, a plain dict or list, the storage's own mapping and        *)
(* sequence types (_SaverDict, _SaverList), or some other object.           *)
PyNone == [type |-> "None"]
PyStr(s) == [type |-> "str", val |-> s]
PyBytes(s) == [type |-> "bytes", val |-> s]
PyNum(n) == [type |-> "num", val |-> n]
PyBool(b) == [type |-> "bool", val |-> b]
PyDict(kv) == [type |-> "dict", kv |-> kv]
PyList(items) == [type |-> "list", items |-> items]
SaverDict(kv) == [type |-> "_SaverDict", kv |-> kv]
SaverList(items) == [type |-> "_SaverList", items |-> items]
PyObject == [type |-> "object"]

IsMapping(x) == x.type \in {"dict", "_SaverDict"}
IsSequence(x) == x.type \in {"list", "_SaverList"}

(* bool(x)                                                                  *)
Truthy(x) ==
    CASE x.type = "None" -> FALSE
      [] x.type \in {"str", "bytes"} -> x.val # <<>>
      [] x.type = "num" -> x.val # 0
      [] x.type = "bool" -> x.val
      [] IsMapping(x) -> DOMAIN x.kv # {}
      [] IsSequence(x) -> x.items # <<>>
      [] OTHER -> TRUE

(* _json_safe                                                               *)
RECURSIVE JsonSafe(_)
JsonSafe(x) ==
    IF x.type \in {"None", "str", "num", "bool"} THEN x
    ELSE IF x.type = "bytes" THEN PyStr(x.val)
    ELSE IF IsMapping(x) THEN PyDict([k \in DOMAIN x.kv |-> JsonSafe(x.kv[k])])
    ELSE IF IsSequence(x) THEN PyList([i \in DOMAIN x.items |-> JsonSafe(x.items[i])])
    ELSE PyStr(<<"object">>)

(* What json.dumps serializes: None, text, numbers, and plain dicts and     *)
(* lists of such values.                                                    *)
RECURSIVE Serializable(_)
Serializable(x) ==
    CASE x.type \in {"None", "str", "num", "bool"} -> TRUE
      [] x.type = "dict" -> \A k \in DOMAIN x.kv : Serializable(x.kv[k])
      [] x.type = "list" -> \A i \in DOMAIN x.items : Serializable(x.items[i])
      [] OTHER -> FALSE

TypeError == [error |-> "TypeError"]
AttributeError == [error |-> "AttributeError"]

(* json.dumps(payload): the request that goes to chat_json, or TypeError.   *)
JsonDumps(payload) ==
    IF Serializable(payload) THEN [request |-> payload] ELSE TypeError

(* (self.room.db.desc or "").strip()                                        *)
RoomDescOf(d) ==
    IF ~Truthy(d) THEN PyStr(<<>>)
    ELSE IF d.type = "str" THEN PyStr(Strip(d.val))
    ELSE IF d.type = "bytes" THEN PyBytes(Strip(d.val))
    ELSE AttributeError

(* get_facts(obj)                                                           *)
GetFacts(facts) == IF Truthy(facts) /\ facts.type = "list" THEN facts ELSE PyList(<<>>)

(* default_affordance() and ensure_affordance as Python values: what the    *)
(* call leaves in obj.db.affordance for the packet to read.                 *)
DefaultPyContainer ==
    [is_container |-> PyBool(FALSE), capacity_weight |-> PyNum(0),
     openable |-> PyBool(FALSE), is_open |-> PyBool(TRUE)]

DefaultPyAffordance ==
    [unit |-> PyStr(<<"lb">>), weight |-> PyNum(1), immovable |-> PyBool(FALSE),
     container |-> PyDict(DefaultPyContainer),
     manipulations |-> PyList(<<PyStr(<<"pick up">>), PyStr(<<"examine">>)>>)]

EnsuredPy(affordance) ==
    LET a == Merged(IF Truthy(affordance) /\ affordance.type = "dict" THEN affordance.kv
                    ELSE EmptyMap,
                    DefaultPyAffordance)
        container == IF a.container.type # "dict" THEN PyDict(DefaultPyContainer)
                     ELSE PyDict(Merged(a.container.kv, DefaultPyContainer))
    IN PyDict([a EXCEPT !.container = container])

(* One entry of notable_objects_packet for a prop with these attributes.    *)
PacketEntry(prop) ==
    [dbref |-> PyStr(<<Dbref(2)>>),
     key |-> PyStr(prop.key),
     shortdesc |-> IF Truthy(prop.shortdesc) THEN prop.shortdesc ELSE PyStr(prop.key),
     facts |-> GetFacts(prop.facts),
     affordance |-> EnsuredPy(prop.affordance)]

(* Computer.generate_prop_json up to the chat completion, in a room with    *)
(* this desc and this one notable prop.                                     *)
GeneratePropJson(room_desc, prop, instruction) ==
    LET d == RoomDescOf(room_desc)
        a == PacketEntry(prop)
        user_payload ==
            PyDict([player |-> PyStr(<<"Ann">>),
                    instruction |-> PyStr(instruction),
                    room_desc |-> d,
                    notable_anchors |->
                        PyList(<<PyDict([key |-> a.key, shortdesc |-> a.shortdesc])>>),
                    recent_memory |-> PyStr(<<>>)])
    IN IF Raised(d) THEN d ELSE JsonDumps(JsonSafe(user_payload))

(* Computer.predict_intent up to the chat completion.                       *)
PredictIntent(room_desc, prop, utterance) ==
    LET d == RoomDescOf(room_desc)
        a == PacketEntry(prop)
        user_payload ==
            PyDict([player |-> PyStr(<<"Ann">>),
                    utterance |-> PyStr(utterance),
                    room_desc |-> d,
                    notable_anchors |->
                        PyList(<<PyDict([key |-> a.key, shortdesc |-> a.shortdesc,
                                         dbref |-> a.dbref])>>),
                    recent_memory |-> PyStr(<<>>)])
    IN IF Raised(d) THEN d ELSE JsonDumps(user_payload)

(* Computer.generate_prop_edit_json up to the chat completion, the prop     *)
(* being the target.                                                        *)
GeneratePropEditJson(room_desc, prop, instruction) ==
    LET d == RoomDescOf(room_desc)
        a == PacketEntry(prop)
        target_packet ==
            PyDict([dbref |-> a.dbref, key |-> a.key, shortdesc |-> a.shortdesc,
                    desc |-> IF Truthy(prop.desc) THEN prop.desc ELSE PyStr(<<>>),
                    facts |-> a.facts, affordance |-> a.affordance])
        user_payload ==
            PyDict([player |-> PyStr(<<"Ann">>),
                    instruction |-> PyStr(instruction),
                    room_desc |-> d,
                    room_facts |-> PyList(<<>>),
                    target |-> target_packet,
                    notable_anchors |->
                        PyList(<<PyDict([key |-> a.key, shortdesc |-> a.shortdesc,
                                         dbref |-> a.dbref])>>),
                    recent_memory |-> PyStr(<<>>)])
    IN IF Raised(d) THEN d ELSE JsonDumps(JsonSafe(user_payload))

(* What the attributes of a room and of a prop can hold.                    *)
StoredTexts ==
    {PyNone, PyStr(<<"a", " ", "lamp">>), PyBytes(<<"a", " ", "lamp">>),
     SaverList(<<PyStr(<<"a">>), PyBytes(<<"lamp">>)>>)}

StoredPyFacts ==
    {PyNone,
     PyList(<<SaverDict([id |-> PyStr(<<"fact_a1">>), text |-> PyBytes(<<"cosy">>)])>>),
     PyList(<<PyObject>>)}

StoredPyAffordances ==
    {PyNone,
     PyDict([weight |-> PyNum(5), container |-> PyDict([is_open |-> PyObject])]),
     PyDict([manipulations |-> SaverList(<<PyBytes(<<"push">>)>>)])}

StoredProps ==
    [key : {<<"Lamp">>}, shortdesc : StoredTexts,
     desc : {PyStr(<<"shiny">>), PyBytes(<<"shiny">>)},
     facts : StoredPyFacts, affordance : StoredPyAffordances]

(* One of the three functions builds its request in the worker pool.        *)
BuildRequest ==
    \E fn \in {"generate_prop_json", "predict_intent", "generate_prop_edit_json"},
       room_desc \in StoredTexts, prop \in StoredProps :
        /\ heard' = [fn |-> fn, room_desc |-> room_desc, prop |-> prop]
        /\ returned' =
              CASE fn = "generate_prop_json" ->
                       GeneratePropJson(room_desc, prop, <<"cat">>)
                [] fn = "predict_intent" ->
                       PredictIntent(room_desc, prop, <<"dance">>)
                [] OTHER ->
                       GeneratePropEditJson(room_desc, prop, <<"paint", " ", "lamp">>)
        /\ last_op' = "build_request"
        /\ sent' = {}
        /\ UNCHANGED <<queryFrame, contents>>

PayloadSpec == Init /\ [][BuildRequest]_vars

(* The room with a character who tries every verb of the computer, in       *)
(* several spellings, and some instructions that only look like one.        *)
DispatchSpeeches ==
    {<<"computer", ",", "facts">>,
     <<"computer", ",", "List", "facts">>,
     <<"computer", ",", "show", " ", "facts">>,
     <<"computer", ",", "FACTS">>,
     <<"computer", ",", "facts", "please">>,
     <<"computer", ",", "unpin", "fact_a1">>,
     <<"computer", ",", "Unpin", "fact_a1">>,
     <<"computer", ",", "unpin">>,
     <<"computer", ",", "unpin", "fact_a1", "now">>,
     <<"computer", ",", "pin", "cosy">>,
     <<"computer", ",", "PIN", "cosy">>,
     <<"computer", ",", "pin">>,
     <<"computer", ",", "pin", ":", "cosy">>,
     <<"computer", ",", "destroy", "lamp">>,
     <<"computer", ",", "Delete", "ghost">>,
     <<"computer", ",", "REMOVE">>,
     <<"computer", ",", "edit", "lamp">>,
     <<"computer", ",", "Update", "lamp">>,
     <<"computer", ",", "Change", "ghost">>,
     <<"computer", ",", "Recolor", "lamp">>,
     <<"computer", ",", "paint", ":", "lamp">>,
     <<"computer", ",", "create", "cat">>,
     <<"computer", ",", "Make", "cat">>,
     <<"computer", ",", "manifest", ",", "cat">>,
     <<"computer", ",", "SUMMON", "cat">>,
     <<"computer", ",", "dance">>,
     <<"computer", ",", "list">>}

SaysDispatch ==
    /\ speeches < MaxSpeech
    /\ \E message \in DispatchSpeeches : HandleSpeech(Speaker, message)

DispatchNext ==
    \/ SaysDispatch
    \/ TaskFires
    \/ Tick

DispatchSpec == Init /\ [][DispatchNext]_vars

(* The room with characters who talk to each other, about the computer and  *)
(* now and then to it.                                                      *)
ChatterSpeeches ==
    {<<>>, <<" ">>, <<"hello">>,
     <<"computer">>,
     <<"computer", ";", "pin", "cosy">>,
     <<"computer", "!", "create", "cat">>,
     <<"the", "computer", ",", "pin", "cosy">>,
     <<"computers", ",", "create", "cat">>,
     <<"computer", ",", "pin", "cosy">>,
     <<"'", "Computer", ":", "create", "cat">>}

SaysChatter ==
    /\ speeches < MaxFactSpeech
    /\ \E message \in ChatterSpeeches : HandleSpeech(Speaker, message)

ChatterNext ==
    \/ SaysChatter
    \/ TaskFires
    \/ Tick

ChatterSpec == Init /\ [][ChatterNext]_vars

(* A prop is carried out of the room or brought back: move_to calls the     *)
(* room's at_object_leave or at_object_receive hook, rooms.py 131-139.      *)
ObjectMoved(op) ==
    /\ sent' = {}
    /\ last_op' = op
    /\ returned' = NoData
    /\ UNCHANGED <<auto_desc, desc, last_generated_desc, director_facts,
                   desc_rewrite_age, desc_rewrite_inflight, director_calls,
                   since_start, since_done, llm_call_age, llm_calls, memory,
                   room_facts, heard, speeches, since_llm, worker_writes, client, objs>>

ObjectLeaves ==
    \E id \in {c \in Range(contents) : IsProp(objs[c])} :
        /\ requests < MaxRequests
        /\ contents' = Without(contents, id)
        /\ IF auto_desc /\ IsSceneObject(objs[id]) THEN ScheduleDescRewrite(tasks)
           ELSE UNCHANGED <<tasks, requests, request_state>>
        /\ ObjectMoved("at_object_leave")

ObjectArrives ==
    \E id \in {o \in DOMAIN objs \ Range(contents) : IsProp(objs[o])} :
        /\ requests < MaxRequests
        /\ contents' = Append(contents, id)
        /\ IF AtObjectReceive(objs[id]) THEN ScheduleDescRewrite(tasks)
           ELSE UNCHANGED <<tasks, requests, request_state>>
        /\ ObjectMoved("at_object_receive")

(* The room with a character who pins, unpins and destroys, props that come *)
(* and go, and a builder who switches the automatic description on and off. *)
SceneSpeeches ==
    {<<"computer", ",", "pin", "cosy">>,
     <<"computer", ",", "unpin", "fact_a1">>,
     <<"computer", ",", "destroy", "lamp">>}

SaysScene ==
    /\ speeches < MaxSpeech
    /\ \E message \in SceneSpeeches : HandleSpeech(Speaker, message)

SceneNext ==
    \/ SaysScene
    \/ ObjectLeaves
    \/ ObjectArrives
    \/ SetAutoDesc
    \/ TaskFires
    \/ Tick

SceneSpec == Init /\ [][SceneNext]_vars

FairSpec == Spec /\ WF_vars(Tick) /\ WF_vars(TaskFires) /\ WF_vars(RewriteReturns)

-----------------------------------------------------------------------------
(* Properties of the rewrite scheduler.                                     *)

Launches == Len(director_calls') > Len(director_calls)

(* C1: at most one director rewrite of the room is in flight at any time,   *)
(* and _start_desc_rewrite called while the in-flight flag is set launches  *)
(* no call and changes no state (it sends nothing and makes no new task).   *)
C1_OneRewriteInFlight ==
    [][ /\ Len(director_calls') <= 1
        /\ (TaskFires /\ desc_rewrite_inflight) =>
              /\ UNCHANGED <<auto_desc, desc, last_generated_desc, director_facts,
                             desc_rewrite_age, desc_rewrite_inflight, director_calls,
                             memory, room_facts, contents, objs, llm_calls, llm_call_age>>
              /\ sent' = {}
              /\ Len(tasks') < Len(tasks) ]_vars

C1_Witness ==
    last_op = "start_inflight" /\ desc_rewrite_inflight /\ Len(director_calls) = 1

(* C2: at most one task that will call _start_desc_rewrite is pending.      *)
C2_OnePendingTask == Len(tasks) <= 1

(* C3: every rewrite request is eventually followed by a rewrite whose      *)
(* snapshot is taken after the request (tasks run, worker calls return).    *)
C3_NoRequestLost == (request_state # "none") ~> (request_state = "none")

(* C3 as amended: a request is eventually followed by such a rewrite, or by *)
(* a call of _start_desc_rewrite that finds a rewrite in flight and drops   *)
(* it.                                                                      *)
C3_ServedOrDroppedInFlight == (request_state = "waiting") ~> (request_state # "waiting")

C3_Witness == last_op = "start_launch" /\ request_state = "none" /\ since_done # Never

C5_CooldownFromCompletion ==
    [][ (TaskFires /\ Launches /\ since_done # Never)
            => since_done >= DESC_UPDATE_COOLDOWN_S ]_vars

(* C5 as amended: a rewrite never starts less than DESC_UPDATE_COOLDOWN_S   *)
(* after the start of the previous rewrite.                                 *)
C5_CooldownFromStart ==
    [][ (TaskFires /\ Launches /\ since_start # Never)
            => since_start >= DESC_UPDATE_COOLDOWN_S ]_vars

C5_Witness == last_op = "start_launch" /\ since_done # Never

(* C6: a completion changes the description only if auto_desc is enabled    *)
(* when it runs and the trimmed new text is non-empty and differs from the  *)
(* current one; otherwise desc is unchanged and nothing is announced.       *)
C6_DescChangesOnlyWhenEnabledAndNew ==
    [][ RewriteReturns =>
          LET applies == /\ auto_desc
                         /\ ~Raised(returned')
                         /\ Strip(returned'.desc) # <<>>
                         /\ Strip(returned'.desc) # desc
          IN /\ desc' # desc => (applies /\ desc' = Strip(returned'.desc))
             /\ ~applies => (desc' = desc /\ MsgSettles \notin sent') ]_vars

C6_Witness ==
    /\ last_op = "rewrite_ok"
    /\ ~auto_desc
    /\ returned.desc # desc

(* C7: on every successful completion with auto_desc enabled,               *)
(* last_generated_desc is the returned description and director_facts the   *)
(* returned facts, whether or not the description changed.                  *)
C7_AlwaysRecorded ==
    (last_op = "rewrite_ok" /\ auto_desc) =>
        /\ last_generated_desc = returned.desc
        /\ returned.facts.is_list => director_facts = returned.facts.items

(* C7 as amended: on a successful completion with auto_desc enabled,        *)
(* last_generated_desc and director_facts are set from the result when the  *)
(* trimmed description is non-empty and differs from the current one, and   *)
(* are both left as they are when it does not.                              *)
C7_RecordedWhenDescChanges ==
    [][ (RewriteReturns /\ ~Raised(returned') /\ auto_desc) =>
          IF Strip(returned'.desc) # <<>> /\ Strip(returned'.desc) # desc
          THEN /\ last_generated_desc' = Strip(returned'.desc)
               /\ director_facts' = IF returned'.facts.is_list
                                     THEN returned'.facts.items ELSE director_facts
          ELSE UNCHANGED <<last_generated_desc, director_facts>> ]_vars

C7_Witness ==
    /\ last_op = "rewrite_ok"
    /\ auto_desc
    /\ sent = {}
    /\ returned.facts.items # director_facts

(* C8: once the in-flight flag is set it is eventually cleared, whatever    *)
(* the worker call ends with.                                               *)
C8_InFlightCleared == desc_rewrite_inflight ~> ~desc_rewrite_inflight

C8_Witness == last_op = "rewrite_fail" /\ ~desc_rewrite_inflight

-----------------------------------------------------------------------------
(* Properties of the speech dispatcher.                                     *)

InstructionOf(message) == ExtractComputerInstruction(NormalizeSayMessage(Strip(message)))

LLMLaunches == Len(llm_calls') > Len(llm_calls)

(* handle_speech is called with an instruction for edit, create or intent.  *)
LLMRequest ==
    /\ speeches' = speeches + 1
    /\ InstructionOf(heard'.message) # <<>>
    /\ Branch(InstructionOf(heard'.message)) \in LLMBranches

(* C9: the LLM-call cooldown is one gate shared by edit, create and intent: *)
(* two such calls are never launched less than LLM_COOLDOWN_SECONDS apart,  *)
(* and a request arriving inside the window launches no call, makes no task *)
(* (it is not queued or retried), leaves last_llm_call_ts and the world as  *)
(* they are, and sends one message, to the speaker.                         *)
C9_SharedLLMCooldown ==
    [][ /\ LLMLaunches => (since_llm = Never \/ since_llm >= LLM_COOLDOWN_SECONDS)
        /\ (LLMRequest /\ InLLMCooldown) =>
              /\ UNCHANGED <<llm_calls, tasks, llm_call_age, room_facts, contents, objs,
                             director_calls, desc, requests>>
              /\ sent' = {MsgPaw} ]_vars

C9_Witness ==
    /\ last_op = "llm_cooldown"
    /\ since_llm # Never
    /\ \E i \in 1..Len(llm_calls) :
          llm_calls[i].kind # Branch(InstructionOf(heard.message))

(* C10: the functions run in the worker pool write no room or object        *)
(* attribute.                                                               *)
C10_NoWorkerWrites == worker_writes = {}

(* C11: the completion of an intent call, whatever the call returns, only   *)
(* sends one text to the speaker (the suggested command, or the verb menu   *)
(* when the intent is unknown or the normalized command is empty); it       *)
(* changes no object, fact, description or timer and launches nothing.      *)
C11_IntentSuggestsOnly ==
    [][ IntentReturns =>
          /\ UNCHANGED <<objs, contents, room_facts, director_facts, desc,
                         last_generated_desc, auto_desc, tasks, desc_rewrite_age,
                         desc_rewrite_inflight, llm_call_age, director_calls, memory,
                         requests, request_state>>
          /\ Len(llm_calls') = Len(llm_calls) - 1
          /\ \A i \in 1..Len(llm_calls') : llm_calls'[i] \in Range(llm_calls)
          /\ sent' = {IF Raised(returned') THEN MsgNoIntent
                      ELSE IF Strip(returned'.normalized) = <<>>
                              \/ returned'.intent = "unknown"
                      THEN MsgMenu
                      ELSE Suggest(Strip(returned'.normalized))} ]_vars

C11_Witness ==
    /\ last_op = "intent_done"
    /\ ~Raised(returned)
    /\ returned.intent = "destroy"
    /\ sent = {Suggest(<<"destroy", "lamp">>)}
    /\ InRoom(2)

(* C12: an edit response changes the target's key, shortdesc or desc only   *)
(* if the dbref it returns is the target's dbref; when it is not, nothing   *)
(* on the target changes, no completion line is broadcast, no rewrite is    *)
(* scheduled and the room receives the soft failure message.                *)
C12_EditOnlyOnDbrefMatch ==
    [][ \A i \in 1..Len(llm_calls) :
          (EditReturns /\ llm_calls[i].kind = "edit" /\ llm_calls' = RemoveAt(llm_calls, i)
                       /\ ~Raised(returned')) =>
             LET target == llm_calls[i].target
                 matches == Strip(returned'.dbref) = <<Dbref(target)>>
             IN /\ objs'[target] # objs[target] => matches
                /\ ~matches =>
                      /\ objs' = objs
                      /\ sent' = {MsgHesitates}
                      /\ UNCHANGED <<tasks, requests, request_state>> ]_vars

(* C13: generate_prop_edit_json called for a dbref that is not in the       *)
(* room's contents makes no chat completion and returns the empty-field     *)
(* result, and no object is changed by the call or by its completion.       *)
C13_MissingTargetIsNoOp ==
    [][ \A i \in 1..Len(llm_calls) :
          LET call == llm_calls[i]
          IN /\ (WorkerRuns /\ call.kind = "edit" /\ call.phase = "queued"
                            /\ llm_calls'[i].phase # "queued" /\ ~InRoom(call.target)) =>
                   /\ llm_calls'[i].phase = "no_target"
                   /\ UNCHANGED <<objs, contents, worker_writes>>
             /\ (EditReturns /\ call.phase = "no_target"
                             /\ llm_calls' = RemoveAt(llm_calls, i)) =>
                   /\ returned' = EmptyEdit
                   /\ UNCHANGED <<objs, contents, room_facts>> ]_vars

C13_Witness ==
    /\ last_op = "edit_done"
    /\ returned = EmptyEdit
    /\ ~InRoom(2)
    /\ sent = {ToRoom("Reality tweaks itself. <key> now looks a little different.")}

-----------------------------------------------------------------------------
(* Properties of the LLM client.                                            *)

(* The answer of the last request is a JSON object.                         *)
Answered(r) ==
    ~r.raised /\ r.status_code < 400 /\ r.json_ok /\ ExtractJsonFromText(r.content).dict

(* C14: chat_json contacts the providers in list order: a provider receives *)
(* a request only after every provider before it has failed, and as soon as *)
(* a provider answers with a JSON object that object is returned and no     *)
(* further request is made.                                                 *)
C14_ProvidersInOrder ==
    [][ /\ \A i \in 1..Len(client'.posts) :
              /\ \A q \in 1..(client'.posts[i] - 1) : q \in Range(client'.failed)
              /\ i > 1 => client'.posts[i - 1] <= client'.posts[i]
        /\ (Post /\ Answered(client'.response)) =>
              /\ client'.pc = "returned"
              /\ client'.out = ExtractJsonFromText(client'.response.content)
              /\ client'.posts = Append(client.posts, client.provider)
              /\ client'.failed = client.failed
        /\ client.pc = "returned" => client'.posts = client.posts ]_vars

(* Provider A always fails, provider B answers: B's result is returned.     *)
C14_Witness ==
    /\ client.pc = "returned"
    /\ Len(client.providers) = 2
    /\ client.posts = <<1, 1, 1, 1, 2>>
    /\ client.failed = <<1>>
    /\ client.out = Dict(<<"{", "k:", "s", "}">>)

(* C15: chat_json returns nothing but a JSON object; when every provider    *)
(* has failed (none is a case of it) it raises one error that carries the   *)
(* last exception seen.                                                     *)
C15_ObjectOrAggregateError ==
    LET n == Len(client.providers)
        all_failed == client.pc # "idle" /\ Range(client.failed) = 1..n
    IN /\ client.pc = "returned" => (client.out.dict /\ ~all_failed)
       /\ all_failed <=> client.pc = "raised"
       /\ client.pc = "raised" =>
             /\ client.out = AllFailed(client.last_exc)
             /\ client.last_exc =
                    IF n = 0 THEN "None"
                    ELSE IF client.providers[n].base_url_ok
                    THEN "RuntimeError: Provider returned no JSON (None)"
                    ELSE "AttributeError"

C15_Witness ==
    /\ client.pc = "raised"
    /\ Len(client.providers) = 2
    /\ client.posts = <<1, 1, 1, 1>>
    /\ client.last_exc = "AttributeError"

(* C16: for one provider the retry loop makes at most max_attempts          *)
(* requests; an HTTP status of 400 or more, an exception and an answer      *)
(* without a JSON object each use up one attempt and are retried, not       *)
(* propagated; the first answer with a JSON object is returned at once;     *)
(* after max_attempts failures the result is None.                          *)
C16_RetryLoopBounded ==
    [][ /\ client'.attempt <= max_attempts
        /\ \A q \in 1..Len(client'.providers) :
              Cardinality({i \in 1..Len(client'.posts) : client'.posts[i] = q})
                  <= max_attempts
        /\ Post =>
              /\ client'.attempt = client.attempt + 1
              /\ Answered(client'.response) =>
                    /\ client'.pc = "returned"
                    /\ client'.out = ExtractJsonFromText(client'.response.content)
              /\ ~Answered(client'.response) =>
                    /\ client'.pc = "calling"
                    /\ client'.provider = client.provider
                    /\ client'.failed = client.failed
                    /\ client'.last_exc = client.last_exc
        /\ Exhausted =>
              /\ client.attempt = max_attempts
              /\ ~Answered(client.response)
              /\ client'.last_exc = "RuntimeError: Provider returned no JSON (None)" ]_vars

C16_Witness ==
    /\ client.pc = "returned"
    /\ client.attempt = max_attempts
    /\ client.posts = <<1, 1, 1, 1>>
    /\ client.last_err = "HTTP"

(* The span from the first "{" of t to the last "}" of t is a JSON mapping. *)
SpanIsMapping(t) ==
    LET opens == {i \in 1..Len(t) : t[i] = "{"}
        closes == {i \in 1..Len(t) : t[i] = "}"}
        first == CHOOSE i \in opens : \A j \in opens : i <= j
        last == CHOOSE i \in closes : \A j \in closes : j <= i
    IN /\ opens # {}
       /\ closes # {}
       /\ first < last
       /\ Loads(SubSeq(t, first, last)).ok
       /\ Loads(SubSeq(t, first, last)).kind = "dict"

(* C17: JSON extraction returns a mapping exactly when the strict parse of  *)
(* the whole trimmed text is a mapping or, the strict parse failing or      *)
(* yielding a non-mapping, the span from the first "{" to the last "}"      *)
(* parses to a mapping; in every other case it returns None.                *)
C17_MappingIffStrictOrSpan ==
    (client.pc = "extracted" /\ ~client.text.none) =>
        LET t == Strip(client.text.str)
            strict_mapping == Loads(t).ok /\ Loads(t).kind = "dict"
        IN IF strict_mapping \/ SpanIsMapping(t)
           THEN client.out.dict
           ELSE client.out = NoneValue

(* C17 as amended: it returns a mapping exactly when the strict parse of    *)
(* the whole trimmed text is a mapping or, the strict parse failing, the    *)
(* span from the first "{" to the last "}" parses to a mapping; a strict    *)
(* parse that yields a non-mapping gives None without a look at the span,   *)
(* and so do a null text and every other case.                              *)
C17_MappingIffStrictOrSpanOnFailure ==
    client.pc = "extracted" =>
        LET t == Strip(client.text.str)
            strict == Loads(t)
            first == CHOOSE i \in 1..Len(t) : t[i] = "{" /\ \A j \in 1..(i - 1) : t[j] # "{"
            last == CHOOSE i \in 1..Len(t) : t[i] = "}" /\ \A j \in (i + 1)..Len(t) : t[j] # "}"
        IN IF client.text.none THEN client.out = NoneValue
           ELSE IF strict.ok /\ strict.kind = "dict" THEN client.out = Dict(strict.value)
           ELSE IF ~strict.ok /\ SpanIsMapping(t)
           THEN client.out = Dict(Loads(SubSeq(t, first, last)).value)
           ELSE client.out = NoneValue

C17_Witness ==
    /\ client.pc = "extracted"
    /\ client.text = Str(<<"x", "{", "k:", "s", "}">>)
    /\ client.out = Dict(<<"{", "k:", "s", "}">>)

-----------------------------------------------------------------------------
(* Properties of the failure paths and of the fact commands.                *)

(* C18: when the create, edit or rewrite call fails (every provider fails,  *)
(* or the result fails validation) its completion creates no object and     *)
(* changes no object, room description, director fact, fact, task or stamp: *)
(* it sends the failure message (create, edit) or nothing (rewrite), and    *)
(* the rewrite's clears the in-flight flag.                                 *)
C18_FailureChangesNothing ==
    [][ LET world == <<objs, contents, desc, last_generated_desc, director_facts,
                       room_facts, tasks, auto_desc, memory, llm_call_age,
                       desc_rewrite_age>>
            EditFails(i) ==
                /\ llm_calls[i].kind = "edit"
                /\ llm_calls' = RemoveAt(llm_calls, i)
                /\ \/ Raised(returned')
                   \/ Strip(returned'.dbref) \notin {<<>>, <<Dbref(llm_calls[i].target)>>}
        IN /\ (EditReturns /\ \E i \in 1..Len(llm_calls) : EditFails(i)) =>
                 /\ UNCHANGED world
                 /\ UNCHANGED <<desc_rewrite_inflight, director_calls>>
                 /\ sent' = {MsgHesitates}
           /\ (CreateReturns /\ (Raised(returned') \/ DescNotString(returned'))) =>
                 /\ UNCHANGED world
                 /\ UNCHANGED <<desc_rewrite_inflight, director_calls>>
                 /\ sent' = {MsgSputters}
           /\ (RewriteReturns /\ Raised(returned')) =>
                 /\ UNCHANGED world
                 /\ ~desc_rewrite_inflight'
                 /\ sent' = {} ]_vars

C18_Witness ==
    /\ last_op = "create_done"
    /\ DescNotString(returned)
    /\ sent = {MsgSputters}
    /\ Len(objs) = 2

(* handle_speech is called with an instruction that begins with the word.   *)
Instructed(verb) ==
    /\ speeches' = speeches + 1
    /\ InstructionOf(heard'.message) # <<>>
    /\ Lower(Strip(InstructionOf(heard'.message))[1]) = verb

(* A rewrite has been scheduled by the step.                                *)
RewriteScheduled ==
    /\ requests' = requests + 1
    /\ tasks' # <<>>
    /\ tasks'[Len(tasks')] = Task(DESC_UPDATE_DEBOUNCE_S, "schedule", TRUE)

(* C19: a pin instruction with a fact text adds one new fact (scope         *)
(* "pinned", strength 1.0, the trimmed text, created_by the speaker) to one *)
(* entity, the room or else the object found for the target after " to ",   *)
(* and schedules a rewrite; with no fact text or a target that is not found *)
(* no fact is added anywhere and no rewrite is scheduled.                   *)
C19_PinAddsOneFact ==
    [][ Instructed("pin") =>
          \A said \in {heard'} :
             LET rest == Strip(Tail(Strip(InstructionOf(said.message))))
                 split == ToAt(rest) # {}
                 at == MinOf(ToAt(rest))
                 fact_text == Strip(IF split THEN SubSeq(rest, 1, at - 1) ELSE rest)
                 target_text == IF split THEN Strip(SubSeq(rest, at + 1, Len(rest)))
                                ELSE <<>>
                 found == FindObjectInRoom(objs, contents, target_text, FALSE)
                 Pinned(f) == /\ f.scope = "pinned"
                              /\ f.strength = 1
                              /\ f.text = fact_text
                              /\ f.created_by = objs[said.speaker].key
             IN IF fact_text = <<>> \/ (split /\ found = None)
                THEN UNCHANGED <<room_facts, objs, tasks, requests>>
                ELSE IF ~split
                THEN /\ Len(room_facts') = Len(room_facts) + 1
                     /\ SubSeq(room_facts', 1, Len(room_facts)) = room_facts
                     /\ Pinned(room_facts'[Len(room_facts')])
                     /\ objs' = objs
                     /\ RewriteScheduled
                ELSE /\ Len(objs'[found].facts) = Len(objs[found].facts) + 1
                     /\ SubSeq(objs'[found].facts, 1, Len(objs[found].facts))
                            = objs[found].facts
                     /\ Pinned(objs'[found].facts[Len(objs'[found].facts)])
                     /\ objs' = [objs EXCEPT ![found].facts = objs'[found].facts]
                     /\ room_facts' = room_facts
                     /\ RewriteScheduled ]_vars

C19_Witness ==
    /\ last_op = "pin"
    /\ Len(room_facts) = 1
    /\ Len(objs[2].facts) = 1
    /\ objs[2].facts[1].text = <<"warm">>
    /\ objs[1].facts = <<>>

(* C20: an unpin instruction touches the room's own facts only: when a room *)
(* fact has the given id it removes it, tells the room and schedules a      *)
(* rewrite; otherwise the room's facts stay as they are, only the speaker   *)
(* is told and no rewrite is scheduled; the facts of objects never change.  *)
C20_UnpinRoomFactsOnly ==
    [][ Instructed("unpin") =>
          LET fid == heard'.message[Len(heard'.message)]
              Has(f) == f.id = fid
              Other(f) == f.id # fid
          IN /\ objs' = objs
             /\ IF SelectSeq(room_facts, Has) # <<>>
                THEN /\ room_facts' = SelectSeq(room_facts, Other)
                     /\ \A m \in sent' : m.to = "room"
                     /\ sent' # {}
                     /\ RewriteScheduled
                ELSE /\ room_facts' = room_facts
                     /\ \A m \in sent' : m.to = "speaker"
                     /\ sent' # {}
                     /\ UNCHANGED <<tasks, requests>> ]_vars

C20_Witness ==
    /\ last_op = "unpin"
    /\ heard.message = <<"computer", ",", "unpin", "fact_a1">>
    /\ \E m \in sent : m.to = "room"
    /\ Len(room_facts) = 1
    /\ room_facts[1].id = "fact_b2"

-----------------------------------------------------------------------------
(* The helpers that find, delete and resolve objects, in staged rooms.      *)

IsDbrefText(t) == Len(t) = 1 /\ IsDbref(t[1])

(* C22: delete_object_by_selector deletes at most one object per call and   *)
(* returns the key and dbref that object had; a name selector (exact or     *)
(* unique substring) deletes a prop only, never an exit or a character,     *)
(* and a selector that is exactly '#<digits>' deletes the object of the     *)
(* room with that dbref whatever its kind.                                  *)
C22_DeletesAtMostOne ==
    [][ last_op' = "delete_object_by_selector" =>
          \A call \in {heard'} :
             LET t == Strip(call.text)
                 gone == {id \in Range(contents) : id \notin Range(contents')}
                 Stays(id) == id \notin gone
             IN /\ Cardinality(gone) <= 1
                /\ contents' = SelectSeq(contents, Stays)
                /\ objs' = objs
                /\ (gone = {}) <=> (returned' = NoData)
                /\ \A id \in gone :
                      /\ returned' = [key |-> objs[id].key, dbref |-> Dbref(id)]
                      /\ ~IsDbrefText(t) =>
                            /\ objs[id].kind = "prop"
                            /\ \/ NameIs(objs[id], LowerText(t))
                               \/ \A other \in Range(contents) :
                                     (IsProp(objs[other])
                                         /\ NameHas(objs[other], LowerText(t)))
                                     => other = id
                /\ IsDbrefText(t) =>
                      gone = {id \in Range(contents) : Dbref(id) = t[1]} ]_vars

C22_Witness ==
    /\ last_op = "delete_object_by_selector"
    /\ heard.text = <<"#5">>
    /\ returned = [key |-> <<"Lamp", "Door">>, dbref |-> "#5"]
    /\ 5 \notin Range(contents)
    /\ Len(contents) = 4

(* C23: find_object_in_room resolves in three tiers: a text that is exactly *)
(* '#<digits>' gives the object with that dbref among all contents, of any  *)
(* kind, or None; otherwise the first prop in contents order whose key or   *)
(* shortdesc in lower case equals the text wins, however many match and     *)
(* whatever matches by substring; otherwise the result is the one prop that *)
(* contains the text, and None when no prop or several do.                  *)
C23_FindInThreeTiers ==
    last_op = "find_object_in_room" =>
        LET t == Strip(heard.text)
            needle == LowerText(t)
            found == returned.obj
            Prop(i) == /\ objs[contents[i]].kind = "prop"
                       /\ heard.notable_only => objs[contents[i]].notable
            Equals(i) == /\ Prop(i)
                         /\ \/ LowerText(objs[contents[i]].key) = needle
                            \/ LowerText(objs[contents[i]].shortdesc) = needle
            Holds(i) == /\ Prop(i)
                        /\ \/ Contains(LowerText(objs[contents[i]].key), needle)
                           \/ Contains(LowerText(objs[contents[i]].shortdesc), needle)
            at == 1..Len(contents)
        IN IF t = <<>> THEN found = None
           ELSE IF IsDbrefText(t)
           THEN IF \E i \in at : Dbref(contents[i]) = t[1]
                THEN found \in Range(contents) /\ Dbref(found) = t[1]
                ELSE found = None
           ELSE IF \E i \in at : Equals(i)
           THEN \E i \in at : /\ Equals(i)
                              /\ \A j \in 1..(i - 1) : ~Equals(j)
                              /\ found = contents[i]
           ELSE IF \E i \in at : Holds(i) /\ \A j \in at : Holds(j) => j = i
           THEN \E i \in at : Holds(i) /\ found = contents[i]
           ELSE found = None

C23_Witness ==
    /\ last_op = "find_object_in_room"
    /\ heard.text = <<"blue", "lamp">>
    /\ ~heard.notable_only
    /\ contents = <<1, 2, 4, 3>>
    /\ returned.obj = 4

(* C24: resolve_edit_target without a dbref in the instruction returns the  *)
(* one notable prop with the highest positive token-overlap score; when     *)
(* several notable props share the highest score it returns None and those  *)
(* props; when none scores above zero it returns None and no props.  With a *)
(* '#<digits>' token in the instruction it returns the object of the room   *)
(* with that dbref, of any kind, or None and no props.                      *)
C24_HighestScoreOrAmbiguity ==
    last_op = "resolve_edit_target" =>
        LET text == Strip(heard.text)
            low == LowerText(text)
            refs == {i \in 1..Len(text) : IsDbref(text[i])}
            notables == {id \in Range(contents) :
                            objs[id].kind = "prop" /\ objs[id].notable}
            top == {id \in notables :
                       /\ Hits(objs[id], low) > 0
                       /\ \A other \in notables :
                             Hits(objs[other], low) <= Hits(objs[id], low)}
        IN IF text = <<>> THEN returned = [target |-> None, ambiguous |-> <<>>]
           ELSE IF refs # {}
           THEN /\ returned.ambiguous = <<>>
                /\ \E i \in refs :
                      /\ \A j \in refs : i <= j
                      /\ IF \E id \in Range(contents) : Dbref(id) = text[i]
                         THEN /\ returned.target \in Range(contents)
                              /\ Dbref(returned.target) = text[i]
                         ELSE returned.target = None
           ELSE IF Cardinality(top) = 1
           THEN returned.target \in top /\ returned.ambiguous = <<>>
           ELSE /\ returned.target = None
                /\ Range(returned.ambiguous) = top
                /\ Len(returned.ambiguous) = Cardinality(top)

C24_Witness ==
    /\ last_op = "resolve_edit_target"
    /\ heard.text = <<"Change", "lamp", "to", "green">>
    /\ contents = <<1, 4, 3, 5, 2>>
    /\ returned = [target |-> None, ambiguous |-> <<3, 2>>]

(* C25 as stated: instruction_mentions_target("change it to blue", obj) is  *)
(* False for every target object, whatever its key and shortdesc.           *)
C25_NeverMentioned ==
    (last_op = "instruction_mentions_target"
        /\ heard.text = <<"change", "it", "to", "blue">>) => ~returned.mentions

(* C25: instruction_mentions_target("change it to blue", obj) is True for a *)
(* target that has the word "blue" in its key or in its shortdesc (leading  *)
(* article apart), and False for every other target.                        *)
C25_MentionedOnlyWhenNamedBlue ==
    (last_op = "instruction_mentions_target"
        /\ heard.text = <<"change", "it", "to", "blue">>) =>
        (returned.mentions <=>
            \/ "blue" \in Range(LowerText(objs[heard.target].key))
            \/ "blue" \in Range(LowerText(objs[heard.target].shortdesc)))

C25_Witness ==
    /\ last_op = "instruction_mentions_target"
    /\ heard.text = <<"change", "it", "to", "blue">>
    /\ objs[heard.target].key = <<"Brass", "Lamp">>
    /\ ~returned.mentions

-----------------------------------------------------------------------------
(* Removals and edits in staged rooms.                                      *)

(* handle_speech is called with an instruction of this branch.              *)
Dispatched(branch) ==
    /\ speeches' = speeches + 1
    /\ InstructionOf(heard'.message) # <<>>
    /\ Branch(InstructionOf(heard'.message)) = branch

MsgNotFound == ToSpeaker("I couldn't find '<remainder>'.")
MsgCanRemove == ToSpeaker("In this room I can remove: <notables>")

(* The selector matches no object of the room, or matches several props by  *)
(* substring and none exactly.                                              *)
NoSingleMatch(selector) ==
    LET needle == LowerText(selector)
        props == {id \in Range(contents) : objs[id].kind = "prop"}
        equal == {id \in props : \/ LowerText(objs[id].key) = needle
                                 \/ LowerText(objs[id].shortdesc) = needle}
        holding == {id \in props :
                       \/ Contains(LowerText(objs[id].key), needle)
                       \/ Contains(LowerText(objs[id].shortdesc), needle)}
    IN IF IsDbrefText(selector)
       THEN \A id \in Range(contents) : Dbref(id) # selector[1]
       ELSE equal = {} /\ Cardinality(holding) # 1

(* What a removal that finds no single match leaves alone.                  *)
NothingRemoved ==
    /\ UNCHANGED <<contents, objs, tasks, requests, room_facts, llm_calls>>
    /\ \A m \in sent' : m.to = "speaker"

(* C21 as stated: a destroy instruction whose selector matches no object,   *)
(* or several only by substring, deletes nothing, broadcasts nothing,       *)
(* schedules no rewrite, and sends the speaker a hint that lists the room's *)
(* notable objects with their dbrefs.                                       *)
C21_NoMatchListsNotables ==
    [][ Dispatched("destroy") =>
          \A said \in {heard'} :
             LET selector == Strip(StripArticle(Strip(Tail(InstructionOf(said.message)))))
             IN (selector # <<>> /\ NoSingleMatch(selector)) =>
                   /\ NothingRemoved
                   /\ MsgCanRemove \in sent' ]_vars

(* C21: such a destroy instruction deletes nothing, broadcasts nothing,     *)
(* schedules no rewrite and tells the speaker that the object was not       *)
(* found; the list of the room's notable objects with their dbrefs is sent  *)
(* when the room has a notable prop, and not otherwise.                     *)
C21_NoMatchDeletesNothing ==
    [][ Dispatched("destroy") =>
          \A said \in {heard'} :
             LET selector == Strip(StripArticle(Strip(Tail(InstructionOf(said.message)))))
             IN (selector # <<>> /\ NoSingleMatch(selector)) =>
                   /\ NothingRemoved
                   /\ MsgNotFound \in sent'
                   /\ MsgCanRemove \in sent' <=>
                         \E id \in Range(contents) :
                             objs[id].kind = "prop" /\ objs[id].notable ]_vars

C21_Witness ==
    /\ last_op = "destroy_not_found"
    /\ heard.message = <<"computer", ",", "destroy", "lamp">>
    /\ contents = <<1, 3, 2>>
    /\ sent = {MsgCanRemove, MsgNotFound}
    /\ tasks = <<>>

(* C26: an edit call is launched only for a target that resolve_edit_target *)
(* returned and that instruction_mentions_target accepts; when no target is *)
(* resolved, the resolution is ambiguous or the target fails the mention    *)
(* check, no call is launched, no object changes, nothing is broadcast and  *)
(* only the speaker gets a hint to use a dbref.                             *)
C26_EditNeedsMentionedTarget ==
    [][ Dispatched("edit") =>
          \A said \in {heard'} :
             LET instruction == InstructionOf(said.message)
                 resolved == ResolveEditTarget(objs, contents, instruction)
                 accepted == /\ resolved.target # None
                             /\ InstructionMentionsTarget(instruction, objs[resolved.target])
             IN /\ llm_calls' # llm_calls => accepted
                /\ ~InLLMCooldown =>
                     IF accepted
                     THEN /\ Len(llm_calls') = Len(llm_calls) + 1
                          /\ llm_calls'[Len(llm_calls')].kind = "edit"
                          /\ llm_calls'[Len(llm_calls')].target = resolved.target
                          /\ SubSeq(llm_calls', 1, Len(llm_calls)) = llm_calls
                     ELSE /\ UNCHANGED <<llm_calls, objs, contents, room_facts, tasks,
                                         requests>>
                          /\ sent' # {}
                          /\ \A m \in sent' :
                                /\ m.to = "speaker"
                                /\ m.text \in
                                     {"Which one did you mean? Use a dbref",
                                      "I couldn't tell what object you meant. I see: <notables>",
                                      "I couldn't tell what object you meant."} ]_vars

C26_Witness ==
    /\ last_op = "edit_no_target"
    /\ heard.message = <<"computer", ",", "paint", "it", "red">>
    /\ 2 \in Range(contents)
    /\ llm_calls = <<>>
    /\ sent = {ToSpeaker("I couldn't tell what object you meant. I see: <notables>")}

-----------------------------------------------------------------------------
(* Stored facts and affordances.                                            *)

(* C27 as stated: removing an id that no stored fact has returns false and  *)
(* leaves the stored list unchanged; removing an id that a stored fact has  *)
(* returns true and shortens the list by exactly one; on storage that is    *)
(* not a list remove_fact returns false and changes nothing.                *)
C27_RemovesExactlyOne ==
    last_op = "remove_fact" =>
        LET before == heard.stored
            after == returned.stored
            Has(f) == IsFact(f) /\ f.id = heard.fact_id
        IN IF before.kind # "list"
           THEN ~returned.result /\ after = before
           ELSE IF SelectSeq(before.items, Has) = <<>>
           THEN ~returned.result /\ after = before
           ELSE /\ returned.result
                /\ after.kind = "list"
                /\ Len(after.items) = Len(before.items) - 1

(* C27: remove_fact on a stored list keeps, in order, the entries that are  *)
(* dicts with another id and returns whether the list got shorter: false    *)
(* with the list unchanged when every entry is such a dict, true otherwise, *)
(* the list being shorter by the number of entries with the id or that are  *)
(* no dicts.  On None or an empty dict it stores an empty list and returns  *)
(* false; on any other value that is not a list it returns false and        *)
(* changes nothing.                                                         *)
C27_RemovesAllWithId ==
    last_op = "remove_fact" =>
        LET before == heard.stored
            after == returned.stored
            Goes(f) == ~IsFact(f) \/ f.id = heard.fact_id
            Stays(f) == ~Goes(f)
            going == Len(SelectSeq(before.items, Goes))
        IN IF before.kind = "list"
           THEN /\ after = StoredList(SelectSeq(before.items, Stays))
                /\ Len(after.items) = Len(before.items) - going
                /\ returned.result <=> going > 0
                /\ going = 0 => after = before
           ELSE IF before.kind \in {"None", "empty dict"}
           THEN ~returned.result /\ after = StoredList(<<>>)
           ELSE ~returned.result /\ after = before

C27_Witness ==
    /\ last_op = "remove_fact"
    /\ heard.fact_id = "fact_a1"
    /\ heard.stored = StoredList(<<NewFact("fact_a1", <<"cosy">>, <<"Ann">>, "pinned", 1),
                                   NewFact("fact_b2", <<"dim">>, <<"Ann">>, "pinned", 1),
                                   NewFact("fact_a1", <<"warm">>, <<"Ann">>, "pinned", 1)>>)
    /\ returned.result
    /\ returned.stored = StoredList(<<NewFact("fact_b2", <<"dim">>, <<"Ann">>, "pinned", 1)>>)

(* After ensure_affordance every top-level key and every key of the         *)
(* container is there, and a second call changes nothing.                   *)
AffordanceComplete ==
    /\ returned.dict
    /\ DOMAIN returned.kv = DOMAIN DefaultAffordance
    /\ returned.kv.container.dict
    /\ DOMAIN returned.kv.container.kv = DOMAIN DefaultContainer
    /\ heard.again => returned = heard.affordance

(* What the stored affordance held under a top-level key.                   *)
StoredUnder(k) == heard.affordance.kv[k]

(* Every top-level key but container keeps the value stored under it, a key *)
(* that was missing has the default, and a container that was a dict keeps  *)
(* the values stored under its keys and has the defaults under the others.  *)
AffordanceKept ==
    /\ \A k \in DOMAIN DefaultAffordance \ {"container"} :
          returned.kv[k] = IF k \in DOMAIN heard.affordance.kv THEN StoredUnder(k)
                           ELSE DefaultAffordance[k]
    /\ "container" \notin DOMAIN heard.affordance.kv =>
          returned.kv.container = Dict(DefaultContainer)
    /\ ("container" \in DOMAIN heard.affordance.kv /\ StoredUnder("container").dict) =>
          \A k \in DOMAIN DefaultContainer :
              returned.kv.container.kv[k] =
                  IF k \in DOMAIN StoredUnder("container").kv
                  THEN StoredUnder("container").kv[k] ELSE DefaultContainer[k]

(* C28 as stated: ensure_affordance is idempotent and complete, and a value *)
(* already stored under a top-level key or under a key of an existing       *)
(* container dict is never overwritten; only missing keys are filled.       *)
C28_NeverOverwrites ==
    last_op = "ensure_affordance" =>
        /\ AffordanceComplete
        /\ AffordanceKept
        /\ \A k \in DOMAIN heard.affordance.kv :
              (k # "container" \/ ~StoredUnder(k).dict) => returned.kv[k] = StoredUnder(k)

(* C28: ensure_affordance is idempotent and complete; values stored under   *)
(* the other top-level keys and under the keys of a container that is a     *)
(* dict are kept and the missing keys are filled from the defaults, but a   *)
(* value stored under container that is not a dict is replaced by the       *)
(* default container.                                                       *)
C28_KeepsAllButBadContainer ==
    last_op = "ensure_affordance" =>
        /\ AffordanceComplete
        /\ AffordanceKept
        /\ ("container" \in DOMAIN heard.affordance.kv /\ ~StoredUnder("container").dict) =>
              returned.kv.container = Dict(DefaultContainer)

C28_Witness ==
    /\ last_op = "ensure_affordance"
    /\ heard.again
    /\ returned.kv.unit = "kg"
    /\ returned.kv.weight = 1
    /\ returned.kv.container.kv.is_container
    /\ returned.kv.container.kv.is_open

-----------------------------------------------------------------------------
(* The memory buffer.                                                       *)

(* C29: the room's memory is a bounded rolling buffer: it never holds more  *)
(* than MEMORY_MAX entries, every handle_speech call with a non-empty       *)
(* message appends the message (whether it addresses the computer or not)   *)
(* behind the entries already there, which keep their order, and a full     *)
(* buffer drops its oldest entry; nothing else changes the buffer.          *)
C29_BoundedRollingMemory ==
    /\ [](Len(memory) <= MEMORY_MAX)
    /\ [][ \A said \in {heard'} :
              IF speeches' = speeches \/ said.message = <<>>
              THEN memory' = memory
              ELSE LET entry == [who |-> objs[said.speaker].key, msg |-> said.message]
                       evicted == IF Len(memory) = MEMORY_MAX THEN 1 ELSE 0
                   IN /\ Len(memory') = Len(memory) + 1 - evicted
                      /\ memory'[Len(memory')] = entry
                      /\ \A i \in 1..(Len(memory') - 1) :
                            memory'[i] = memory[i + evicted] ]_vars

C29_Witness ==
    /\ speeches = 2
    /\ Len(memory) = MEMORY_MAX
    /\ memory[1].msg = <<"again">>
    /\ memory[MEMORY_MAX - 1].msg = <<"hello">>
    /\ memory[MEMORY_MAX].msg = <<"computer", ",", "facts">>
    /\ heard.message = <<"computer", ",", "facts">>

-----------------------------------------------------------------------------
(* Manifestation.                                                           *)

(* The create call comes back.                                              *)
CreateCompletes == last_op' = "create_done" /\ Len(llm_calls') < Len(llm_calls)

(* C30: a create that succeeds makes exactly one object, which is in the    *)
(* room afterwards with its notable flag, its facts list and its affordance *)
(* set; they are set before the move, so the room's arrival hook finds a    *)
(* scene object and, with auto_desc on, schedules a rewrite besides the one *)
(* the completion schedules.  A create that fails, and every other step,    *)
(* makes no object.                                                         *)
C30_FlagsSetBeforeArrival ==
    [][ IF CreateCompletes /\ ~(Raised(returned') \/ DescNotString(returned'))
        THEN /\ Len(objs') = Len(objs) + 1
             /\ SubSeq(objs', 1, Len(objs)) = objs
             /\ contents' = Append(contents, Len(objs'))
             /\ objs'[Len(objs')].kind = "prop"
             /\ objs'[Len(objs')].notable
             /\ objs'[Len(objs')].facts = <<>>
             /\ objs'[Len(objs')].affordance
                    = Dict([unit |-> "lb", weight |-> 1, immovable |-> FALSE])
             /\ requests' = requests + (IF auto_desc THEN 2 ELSE 1)
             /\ tasks' # <<>>
        ELSE Len(objs') = Len(objs) /\ contents' = contents ]_vars

C30_Witness ==
    /\ last_op = "create_done"
    /\ ~Raised(returned)
    /\ ~DescNotString(returned)
    /\ auto_desc
    /\ requests = 2
    /\ contents = <<1, 2, 3>>
    /\ objs[3].notable

-----------------------------------------------------------------------------
(* Properties of the request payloads.                                      *)

(* C31: the JSON-safety coercion is applied to the request payload of every *)
(* LLM pipeline (create, edit and intent) before it is serialized, so       *)
(* building a request never fails on byte strings or nested non-primitive   *)
(* mapping and sequence values coming from attribute storage: whatever the  *)
(* attributes hold, each of the three functions ends with a request.        *)
C31_RequestAlwaysBuilt ==
    last_op = "build_request" => ~Raised(returned)

-----------------------------------------------------------------------------
(* The dispatch table.                                                      *)

(* The handlers in the order of the table, and the pattern of each, on the  *)
(* instruction in lower case.                                               *)
HandlerOrder == <<"facts", "unpin", "pin", "destroy", "edit", "create", "intent">>

PatternMatches(handler, low) ==
    LET spaced == Len(low) >= 2 /\ (IsWord(low[2]) \/ low[2] = " ")
    IN CASE handler = "facts" ->
                low \in {<<"facts">>, <<"list", "facts">>, <<"show", "facts">>}
         [] handler = "unpin" ->
                /\ low[1] = "unpin" /\ spaced
                /\ Len(LStrip(Tail(low))) = 1 /\ IsIdent(low[Len(low)])
         [] handler = "pin" -> low[1] = "pin" /\ spaced
         [] handler = "destroy" -> low[1] \in {"destroy", "delete", "remove"}
         [] handler = "edit" -> low[1] \in {"edit", "update", "change", "recolor", "paint"}
         [] handler = "create" -> low[1] \in {"create", "make", "manifest", "summon"}
         [] OTHER -> TRUE

FirstMatching(low) ==
    HandlerOrder[MinOf({i \in 1..Len(HandlerOrder) : PatternMatches(HandlerOrder[i], low)})]

(* The ways each handler can end; the three LLM-backed handlers share the   *)
(* cooldown rejection.                                                      *)
EndsOf(handler) ==
    CASE handler = "facts" -> {"facts"}
      [] handler = "unpin" -> {"unpin"}
      [] handler = "pin" -> {"pin", "pin_usage", "pin_not_found"}
      [] handler = "destroy" -> {"destroy", "destroy_usage", "destroy_not_found"}
      [] handler = "edit" -> {"edit", "edit_no_target", "llm_cooldown"}
      [] handler = "create" -> {"create", "create_usage", "llm_cooldown"}
      [] OTHER -> {"intent", "llm_cooldown"}

(* C32: for every non-empty instruction addressed to the computer exactly   *)
(* one handler runs, and it is the first one whose pattern matches the      *)
(* instruction, whatever its case, in the fixed order list facts, unpin,    *)
(* pin, destroy/delete/remove, edit/update/change/recolor/paint,            *)
(* create/make/manifest/summon, intent fallback.                            *)
C32_FirstMatchingHandlerRuns ==
    [][\A said \in {heard'} :
          (speeches' = speeches + 1 /\ InstructionOf(said.message) # <<>>) =>
              LET low == LowerText(Strip(InstructionOf(said.message)))
                  handler == FirstMatching(low)
              IN /\ last_op' \in EndsOf(handler)
                 /\ \A other \in Range(HandlerOrder) \ {handler} :
                        last_op' \in EndsOf(other) => last_op' = "llm_cooldown"]_vars

(* Every handler of the table has run, one of them for an instruction in    *)
(* capitals.                                                                *)
C32_Witness ==
    /\ speeches = 2
    /\ last_op = "create"
    /\ heard.message = <<"computer", ",", "SUMMON", "cat">>
    /\ Len(room_facts) = 1

-----------------------------------------------------------------------------
(* The create verb alone.                                                   *)

CreateVerbs == {"create", "make", "manifest", "summon"}

(* C33: a create/make/manifest/summon instruction with nothing after the    *)
(* verb yields only the usage hint to the speaker: no LLM call is launched, *)
(* last_llm_call_ts is unchanged, and nothing is broadcast or created.      *)
C33_BareVerbGetsUsageHint ==
    [][\A said \in {heard'} :
          (/\ speeches' = speeches + 1
           /\ Len(InstructionOf(said.message)) = 1
           /\ Lower(InstructionOf(said.message)[1]) \in CreateVerbs) =>
              /\ sent' = {MsgUsage}
              /\ llm_calls' = llm_calls
              /\ llm_call_age' = llm_call_age
              /\ contents' = contents
              /\ objs' = objs]_vars

-----------------------------------------------------------------------------
(* Speech between the characters.                                           *)

(* The normalized text starts with 'computer ', 'computer:' or 'computer,'. *)
StartsWithComputer(norm) ==
    /\ Len(norm) >= 2
    /\ Lower(norm[1]) = "computer"
    /\ (IsWord(norm[2]) \/ norm[2] \in {" ", ":", ","})

(* C34: speech that is not addressed to the computer (its normalized text   *)
(* does not start with 'computer ', 'computer:' or 'computer,') changes     *)
(* nothing but the memory buffer: no fact, object, description, cooldown    *)
(* timestamp or timer changes, no LLM call is launched, nothing is sent.    *)
C34_UnaddressedSpeechOnlyRemembered ==
    [][\A said \in {heard'} :
          (/\ speeches' = speeches + 1
           /\ ~StartsWithComputer(NormalizeSayMessage(Strip(said.message)))) =>
              /\ sent' = {}
              /\ UNCHANGED <<room_facts, objs, contents, auto_desc, desc,
                             last_generated_desc, director_facts, llm_call_age,
                             since_llm, desc_rewrite_age, desc_rewrite_inflight,
                             tasks, llm_calls, director_calls, requests, request_state,
                             worker_writes, client>>]_vars

(* Talk about the computer was remembered while a rewrite was scheduled and *)
(* a create call was queued.                                                *)
C34_Witness ==
    /\ heard = [speaker |-> Speaker, message |-> <<"computer", ";", "pin", "cosy">>]
    /\ last_op = "speech"
    /\ Len(memory) = 3
    /\ Len(tasks) = 1
    /\ Len(llm_calls) = 1

-----------------------------------------------------------------------------
(* Deletion against lookup.                                                 *)

(* C35: for every room and selector, delete_object_by_selector deletes      *)
(* exactly the object that find_object_in_room with notable_only=False      *)
(* returns for the same room and selector, and deletes nothing when         *)
(* find_object_in_room returns None.                                        *)
C35_DeletesWhatFindReturns ==
    [][ last_op' = "delete_object_by_selector" =>
          \A call \in {heard'} :
             LET found == FindObjectInRoom(objs, contents, call.text, FALSE)
                 NotFound(id) == id # found
             IN /\ contents' = SelectSeq(contents, NotFound)
                /\ (found = None) => (contents' = contents /\ returned' = NoData)
                /\ (found # None) =>
                      /\ Len(contents') = Len(contents) - 1
                      /\ returned' = [key |-> objs[found].key, dbref |-> Dbref(found)] ]_vars

(* The plain lamp, which is not notable, was deleted by its name although   *)
(* two notable lamps contain the word.                                      *)
C35_Witness ==
    /\ last_op = "delete_object_by_selector"
    /\ heard.text = <<"lamp">>
    /\ returned = [key |-> <<"Lamp">>, dbref |-> "#4"]
    /\ 4 \notin Range(contents)
    /\ {2, 3} \subseteq Range(contents)

-----------------------------------------------------------------------------
(* The timestamp of the LLM cooldown.                                       *)

(* C36: last_llm_call_ts advances only when an LLM-backed call (edit,       *)
(* create or intent) is actually launched: a handle_speech call that ends   *)
(* without launching a background call (facts, pin, unpin, destroy, the     *)
(* cooldown rejection, an unresolved or ambiguous edit target, an empty     *)
(* create) leaves it unchanged.                                             *)
C36_StampedOnlyOnLaunch ==
    [][(speeches' = speeches + 1 /\ ~LLMLaunches) => llm_call_age' = llm_call_age]_vars

-----------------------------------------------------------------------------
(* An edit whose target has left the room.                                  *)

MsgTweaks == ToRoom("Reality tweaks itself. <key> now looks a little different.")

(* C37: an edit completion never changes the key, shortdesc or desc of an   *)
(* object that is no longer in the room's contents when the completion runs *)
(* (for example one destroyed by another instruction while the edit call    *)
(* was in flight), and never announces a change for it.                     *)
C37_NoEditOfDepartedTarget ==
    [][last_op' = "edit_done" =>
          \A i \in 1..Len(llm_calls) :
             (llm_calls' = RemoveAt(llm_calls, i) /\ ~InRoom(llm_calls[i].target)) =>
                 /\ objs'[llm_calls[i].target] = objs[llm_calls[i].target]
                 /\ MsgTweaks \notin sent']_vars

-----------------------------------------------------------------------------
(* The automatic description switched off.                                  *)

(* C38: while auto_desc is disabled on a room, no director call is launched *)
(* for that room, whatever sequence of pin, unpin, destroy, edit, create    *)
(* and object arrival and departure events occurs.                          *)
C38_NoRewriteWhileDisabled ==
    [][Launches => auto_desc]_vars

-----------------------------------------------------------------------------
(* The facts the director sees.                                             *)

(* C39: every fact pinned on the room that exists when a rewrite starts is  *)
(* contained in the facts of the snapshot sent to the director, so the      *)
(* regenerated description is built with the pinned facts in view.          *)
C39_SnapshotHoldsPinnedFacts ==
    [][Launches =>
          \A i \in 1..Len(room_facts) :
              room_facts[i].text \in Range(director_calls'[Len(director_calls')].facts)]_vars

====
